---- MODULE Spec2Model ----
(***************************************************************************)
(* Model of the RO-Crate explorer's crate graph engine: the navigation and *)
(* cache state machine of src/src/App.vue, the loader of                   *)
(* src/src/services/crateLoader.ts and the search index of                 *)
(* src/src/services/searchService.ts.                                      *)
(*                                                                         *)
(* A string that the code treats as a URL or path is a record              *)
(*   [abs |-> BOOLEAN, segs |-> sequence of path segments]                 *)
(* abs = TRUE  : "https://h/" followed by the segments joined by "/"       *)
(* abs = FALSE : the bare string, the segments joined by "/"               *)
(* so that a trailing "" segment is a trailing slash.                      *)
(***************************************************************************)
EXTENDS Integers, Sequences, FiniteSets, TLC

\* ------------------------------------------------------------------ bounds
MaxTasks == 2
MaxSegs == 2
MaxHistory == 2

\* ------------------------------------------------------------------ values
NULL == "null"

META == "ro-crate-metadata.json"

Str(segs) == [abs |-> FALSE, segs |-> segs]

Url(segs) == [abs |-> TRUE, segs |-> segs]

EmptyStr == Str(<<"">>)

\* the null of a string-valued ref (currentUrl, rootCrateUrl, errorMsg ...)
NoUrl == Str(<<>>)

\* !x for a string or null x
Falsy(u) == u = NoUrl \/ u = EmptyStr

Front(s) == SubSeq(s, 1, Len(s) - 1)

Last(s) == s[Len(s)]

\* String.prototype.endsWith("/")
EndsWithSlash(u) ==
  IF u.abs THEN Last(u.segs) = "" ELSE Len(u.segs) >= 2 /\ Last(u.segs) = ""

\* x.endsWith("/") ? x : x + "/"
WithSlash(u) == IF EndsWithSlash(u) THEN u ELSE [u EXCEPT !.segs = Append(@, "")]

\* a filename matched by /([^\/]+ro-crate-metadata\.json)$/i
IsMetaName(seg) == seg \in {META, "a-" \o META, "b-" \o META}

\* removal of "." and ".." segments done by the URL parser
RECURSIVE RemoveDots(_, _)
RemoveDots(segs, acc) ==
  IF segs = <<>> THEN acc
  ELSE LET h == Head(segs)
           t == Tail(segs)
       IN IF h = "." THEN RemoveDots(IF t = <<>> THEN <<"">> ELSE t, acc)
          ELSE IF h = ".."
            THEN RemoveDots(IF t = <<>> THEN <<"">> ELSE t,
                            IF acc = <<>> THEN acc ELSE Front(acc))
          ELSE RemoveDots(t, Append(acc, h))

\* new URL(x): throws unless x is absolute; NoUrl stands for the throw
NewURL(x) == IF x.abs THEN Url(RemoveDots(x.segs, <<>>)) ELSE NoUrl

\* new URL(ref, base): resolution of a reference against a base
NewURLBase(ref, base) ==
  IF ref.abs THEN NewURL(ref)
  ELSE IF ~base.abs THEN NoUrl
  ELSE IF ref.segs = <<"">> THEN base
  ELSE IF ref.segs[1] = "" THEN Url(RemoveDots(Tail(ref.segs), <<>>))
  ELSE Url(RemoveDots(Front(base.segs) \o ref.segs, <<>>))

\* the base location a loaded URL gets: the URL with a trailing slash
BaseUrlOf(u) ==
  IF NewURL(u) # NoUrl THEN WithSlash(NewURL(u)) ELSE WithSlash(u)

\* ------------------------------------------------------------ documents
\* An entity of an @graph: its "@id", its "name" (NULL when absent) and
\* whether it is the metadata descriptor (a CreativeWork that conformsTo the
\* RO-Crate specification and is about the root).
Entity(id, name) == [id |-> id, name |-> name, desc |-> FALSE]

Descriptor == [id |-> META, name |-> NULL, desc |-> TRUE]

\* a null element of the @graph array
NullEntity == [id |-> NULL, name |-> NULL, desc |-> FALSE]

\* the undefined that Array.prototype.find returns when nothing matches
Undefined == [id |-> "undefined", name |-> NULL, desc |-> FALSE]

IsRootId(id) == id \in {"./", "."}

\* documents the collaborators can deliver; ctx: "@context" present,
\* graph: the "@graph" array
D1 == [id |-> "d1", ctx |-> TRUE, graph |-> <<Entity("./", "n1"), Entity("a", NULL)>>]

D2 == [id |-> "d2", ctx |-> TRUE, graph |-> <<Descriptor, Entity("./", NULL), Entity("b", NULL)>>]

DNull == [id |-> "dnull", ctx |-> TRUE, graph |-> <<Entity("./", "n3"), NullEntity>>]

DEmpty == [id |-> "dempty", ctx |-> FALSE, graph |-> <<>>]

\* a document with a descriptor and a root entity and without @context
DNoCtx == [id |-> "dnoctx", ctx |-> FALSE, graph |-> <<Descriptor, Entity("./", NULL)>>]

\* a document without a root entity, and one with two of them
DNoRoot == [id |-> "dnoroot", ctx |-> TRUE, graph |-> <<Entity("a", NULL)>>]

DTwoRoots == [id |-> "dtworoots", ctx |-> TRUE,
              graph |-> <<Entity("./", "n1"), Entity(".", NULL)>>]

NoDoc == [id |-> NULL, ctx |-> FALSE, graph |-> <<>>]

\* what a URL or a file can hold: the root document at the top of the
\* site and in files, the subcrate document below it; any of them can be
\* replaced by a document with a null entity or by one without a graph
\* a second metadata document of a directory, "b-ro-crate-metadata.json",
\* describes another crate than the first
WebDoc(url) ==
  IF url.segs # <<>> /\ Last(url.segs) = "b-" \o META
  THEN [id |-> "d2b", ctx |-> TRUE,
        graph |-> <<Descriptor, Entity("./", "n2"), Entity("b", NULL)>>]
  ELSE IF url.abs /\ Len(url.segs) >= 2 THEN D2 ELSE D1

RemoteDocs(url) == {WebDoc(url), DNull, DEmpty}

\* what the user can paste
PastedDocs == {D1, DNull, DNoCtx}

\* what the crate parameter of a share link can hold
SharedDocs == {D1}

\* what the indexing service returns as the metadata of a crate it indexed
MetadataDocs(url) == {WebDoc(url)}

\* validateRoCrateJson: TRUE when no error is thrown
validateRoCrateJson(data) ==
  /\ data.ctx
  /\ data.graph # <<>>
  /\ \E i \in DOMAIN data.graph : IsRootId(data.graph[i].id)

\* normalizeDescriptorName throws when findIndex reads a property of a null
\* element, which it does unless a descriptor stands before it
NormalizeThrows(json) ==
  \E i \in DOMAIN json.graph :
     /\ json.graph[i] = NullEntity
     /\ \A j \in 1..(i - 1) : ~json.graph[j].desc

\* jsonld.expand(json) and buildLinkedDataHints(json, expanded): the expanded
\* nodes and the hints of a document, one per entity
ExpandedOf(json) == [i \in DOMAIN json.graph |-> <<"expanded", json.id, json.graph[i].id>>]

buildLinkedDataHints(json) ==
  IF ~json.ctx THEN {}
  ELSE {<<json.id, json.graph[i].id>> : i \in DOMAIN json.graph}

\* the first element of a sequence that satisfies Array.prototype.find's
\* test for the root identifier, Undefined when there is none
FindRoot(entities) ==
  IF \E i \in DOMAIN entities : IsRootId(entities[i].id)
  THEN entities[CHOOSE i \in DOMAIN entities :
                  /\ IsRootId(entities[i].id)
                  /\ \A j \in 1..(i - 1) : ~IsRootId(entities[j].id)]
  ELSE Undefined

\* crate.value?.rootDataset of the ROCrate built from a document
RootDataset(crateDoc) == FindRoot(crateDoc.graph)

getSafeName(entity, fallback) ==
  IF entity = Undefined THEN fallback
  ELSE IF entity.name # NULL THEN entity.name
  ELSE IF entity.id # NULL THEN entity.id
  ELSE fallback

\* ------------------------------------------------------- search service
PRIMARY == Str(<<"primary">>)

\* extractSearchableContent: the key names and the values of the entity
extractSearchableContent(entity) ==
  <<"@id", entity.id>> \o (IF entity.name # NULL THEN <<"name", entity.name>> ELSE <<>>)

RECURSIVE IndexItems(_, _)
IndexItems(entities, crateId) ==
  IF entities = <<>> THEN <<>>
  ELSE LET e == Head(entities)
       IN (IF e.id = NULL THEN <<>>
           ELSE <<[entityId |-> e.id, crateId |-> crateId,
                   searchableContent |-> extractSearchableContent(e)]>>)
          \o IndexItems(Tail(entities), crateId)

\* the entities read before the loop of buildSearchIndex / addToIndex throws
\* on a null element (all of them when there is none)
RECURSIVE BeforeNull(_)
BeforeNull(entities) ==
  IF entities = <<>> \/ Head(entities) = NullEntity THEN <<>>
  ELSE <<Head(entities)>> \o BeforeNull(Tail(entities))

HasNull(entities) == \E i \in DOMAIN entities : entities[i] = NullEntity

RECURSIVE FilterOut(_, _)
FilterOut(items, crateId) ==
  IF items = <<>> THEN <<>>
  ELSE (IF Head(items).crateId = crateId THEN <<>> ELSE <<Head(items)>>)
       \o FilterOut(Tail(items), crateId)

\* ------------------------------------------------------------------ state
VARIABLES
  isStateless,        \* config.isStateless, fixed by the build
  currentUrl, crate, currentCrateName, historyStack, allEntities,
  expandedCrate, linkedDataHints, selectedEntityId, crateCache, rootCrateUrl,
  isLoading, baseUrl, errorMsg,
  indexData, fuseInstance,   \* module state of searchService.ts
  tasks,              \* the suspended async calls, each at its await
  ev,                 \* the step just taken: operation, outcome, locator
  mon                 \* observer of handleSubcrateOpen and the goBack after it

appVars == <<currentUrl, crate, currentCrateName, historyStack, allEntities,
             expandedCrate, linkedDataHints, selectedEntityId, crateCache, rootCrateUrl,
             isLoading, baseUrl, errorMsg, indexData, fuseInstance>>

vars == <<isStateless, appVars, tasks, ev, mon>>

\* the refs and module variables as one record, so that a handler is a
\* function from the state before it to the state after it
Cur == [currentUrl |-> currentUrl, crate |-> crate,
        currentCrateName |-> currentCrateName, historyStack |-> historyStack,
        allEntities |-> allEntities, expandedCrate |-> expandedCrate,
        linkedDataHints |-> linkedDataHints, selectedEntityId |-> selectedEntityId,
        crateCache |-> crateCache, rootCrateUrl |-> rootCrateUrl,
        isLoading |-> isLoading, baseUrl |-> baseUrl, errorMsg |-> errorMsg,
        indexData |-> indexData,
        fuseInstance |-> fuseInstance]

Becomes(s) ==
  /\ currentUrl' = s.currentUrl
  /\ crate' = s.crate
  /\ currentCrateName' = s.currentCrateName
  /\ historyStack' = s.historyStack
  /\ allEntities' = s.allEntities
  /\ expandedCrate' = s.expandedCrate
  /\ linkedDataHints' = s.linkedDataHints
  /\ selectedEntityId' = s.selectedEntityId
  /\ crateCache' = s.crateCache
  /\ rootCrateUrl' = s.rootCrateUrl
  /\ isLoading' = s.isLoading
  /\ baseUrl' = s.baseUrl
  /\ errorMsg' = s.errorMsg
  /\ indexData' = s.indexData
  /\ fuseInstance' = s.fuseInstance

NoFuse == [built |-> FALSE, docs |-> <<>>]

Fuse(docs) == [built |-> TRUE, docs |-> docs]

InitState ==
  [currentUrl |-> NoUrl, crate |-> NoDoc,
   currentCrateName |-> "Root", historyStack |-> <<>>, allEntities |-> <<>>,
   expandedCrate |-> <<>>, linkedDataHints |-> {}, selectedEntityId |-> "./",
   crateCache |-> <<>>, rootCrateUrl |-> NoUrl,
   isLoading |-> FALSE, baseUrl |-> EmptyStr, errorMsg |-> NULL,
   indexData |-> <<>>, fuseInstance |-> NoFuse]

\* ---------------------------------------------- searchService.ts, cont.
\* buildSearchIndex: when an element of the list is null the loop throws
\* after indexData was replaced and before the Fuse instance is rebuilt
buildSearchIndex(s, entities, crateId) ==
  LET data == IndexItems(BeforeNull(entities), crateId)
  IN [s EXCEPT !.indexData = data,
               !.fuseInstance = IF HasNull(entities) THEN @ ELSE Fuse(data)]

addToIndex(s, entities, crateId) ==
  IF ~s.fuseInstance.built THEN buildSearchIndex(s, entities, crateId)
  ELSE LET data == FilterOut(s.indexData, crateId)
                   \o IndexItems(BeforeNull(entities), crateId)
       IN [s EXCEPT !.indexData = data,
                    !.fuseInstance = IF HasNull(entities) THEN @ ELSE Fuse(data)]

clearSearchIndex(s) == [s EXCEPT !.fuseInstance = NoFuse, !.indexData = <<>>]

\* Fuse.search: the items whose content holds the query as a token
RECURSIVE Matches(_, _)
Matches(docs, query) ==
  IF docs = <<>> THEN <<>>
  ELSE (IF \E i \in DOMAIN Head(docs).searchableContent :
              Head(docs).searchableContent[i] = query
        THEN <<[entityId |-> Head(docs).entityId, crateId |-> Head(docs).crateId]>>
        ELSE <<>>)
       \o Matches(Tail(docs), query)

Take(seq, n) == SubSeq(seq, 1, IF Len(seq) < n THEN Len(seq) ELSE n)

\* query.trim().length === 0
IsBlank(query) == query \in {"", " "}

localSearch(s, query, limit) ==
  IF ~s.fuseInstance.built \/ IsBlank(query) THEN <<>>
  ELSE Take(Matches(s.fuseInstance.docs, query), limit)

\* ------------------------------------------------- App.vue: processing
\* updateBreadcrumbsForCrate without its second test (lines 513-517)
updateBreadcrumbsKeepsAtRoot(s, crateUrl) ==
  IF Falsy(crateUrl) \/ Falsy(s.rootCrateUrl) THEN [s EXCEPT !.historyStack = <<>>]
  ELSE s

updateBreadcrumbsForCrate(s, crateUrl) ==
  IF Falsy(crateUrl) \/ Falsy(s.rootCrateUrl) THEN [s EXCEPT !.historyStack = <<>>]
  ELSE IF crateUrl = s.rootCrateUrl THEN [s EXCEPT !.historyStack = <<>>]
  ELSE s

CacheHas(s, url) == url \in DOMAIN s.crateCache

CacheSet(cache, url, entry) ==
  [u \in DOMAIN cache \cup {url} |-> IF u = url THEN entry ELSE cache[u]]

ProcessError == "Failed to process RO-Crate JSON"

\* processCrateData up to its first await.  out = "cached": returned from
\* the cache branch; "threw": an exception reached the catch; "await":
\* suspended at jsonld.expand
processCrateData(s0, json, sourceName, sourceUrl, isFirstCrate) ==
  LET s1 == IF isFirstCrate /\ ~Falsy(sourceUrl)
            THEN [s0 EXCEPT !.rootCrateUrl = sourceUrl] ELSE s0
      crateId == IF Falsy(sourceUrl) THEN PRIMARY ELSE sourceUrl
      Index(s, entities) == IF isFirstCrate THEN buildSearchIndex(s, entities, crateId)
                            ELSE addToIndex(s, entities, crateId)
  IN IF ~Falsy(sourceUrl) /\ CacheHas(s1, sourceUrl)
     THEN LET c == s1.crateCache[sourceUrl]
              s2 == [s1 EXCEPT !.allEntities = c.entities,
                               !.expandedCrate = c.expandedCrate,
                               !.linkedDataHints = c.linkedDataHints,
                               !.currentCrateName = c.crateName,
                               !.currentUrl = sourceUrl,
                               !.crate = c.json]
              s3 == Index(s2, s2.allEntities)
          IN IF HasNull(s2.allEntities)
             THEN [st |-> [s3 EXCEPT !.errorMsg = ProcessError], out |-> "threw"]
             ELSE [st |-> updateBreadcrumbsForCrate(
                            [s3 EXCEPT !.selectedEntityId = "./"], sourceUrl),
                   out |-> "cached"]
     ELSE LET s2 == [s1 EXCEPT !.allEntities = <<>>, !.selectedEntityId = "./"]
          IN IF NormalizeThrows(json)
             THEN [st |-> [s2 EXCEPT !.errorMsg = ProcessError], out |-> "threw"]
             ELSE LET s3 == [s2 EXCEPT !.crate = json,
                                       !.allEntities = json.graph,
                                       !.currentUrl = sourceUrl]
                      s4 == Index(s3, s3.allEntities)
                  IN IF HasNull(s3.allEntities)
                     THEN [st |-> [s4 EXCEPT !.errorMsg = ProcessError], out |-> "threw"]
                     ELSE [st |-> s4, out |-> "await"]

\* processCrateData from the return of its last await to its end: the name,
\* the cache entry and the breadcrumbs
FindThrows(entities) ==
  \E i \in DOMAIN entities :
     /\ entities[i] = NullEntity
     /\ \A j \in 1..(i - 1) : ~IsRootId(entities[j].id)

ProcessFinish(s, t, expanded, hints) ==
  IF FindThrows(s.allEntities) THEN [s EXCEPT !.errorMsg = ProcessError] ELSE
  LET found == FindRoot(s.allEntities)
      rootEntity == IF found # Undefined THEN found ELSE RootDataset(s.crate)
      s1 == [s EXCEPT !.currentCrateName = getSafeName(rootEntity, t.sourceName)]
      s2 == IF ~Falsy(t.sourceUrl)
            THEN [s1 EXCEPT !.crateCache =
                    CacheSet(@, t.sourceUrl,
                             [json |-> t.json, entities |-> s1.allEntities,
                              expandedCrate |-> expanded, linkedDataHints |-> hints,
                              crateName |-> s1.currentCrateName])]
            ELSE s1
  IN updateBreadcrumbsForCrate(s2, t.sourceUrl)

\* ------------------------------------------------------- suspended calls
\* kind: the handler that was called; pc: the await it is suspended at;
\* awaited: the handler still awaits processCrateData and clears isLoading
\* when it returns; stale: a later navigation or reset has been issued
Task(kind, pc, fetchUrl, sourceName, sourceUrl, isFirstCrate, subBase) ==
  [kind |-> kind, pc |-> pc, fetchUrl |-> fetchUrl, json |-> NoDoc,
   sourceName |-> sourceName, sourceUrl |-> sourceUrl, isFirstCrate |-> isFirstCrate,
   expanded |-> <<>>, awaited |-> TRUE, subBase |-> subBase, stale |-> FALSE]

\* the call once its handler has handed the document to processCrateData and
\* that is suspended at jsonld.expand: what is left of the handler is its
\* finally block, which runs when processCrateData returns if it is awaited
Processing(t, json, awaited) ==
  [t EXCEPT !.kind = "processCrateData", !.pc = "expand", !.json = json,
            !.fetchUrl = NoUrl, !.subBase = NoUrl, !.awaited = awaited]

RemoveAt(seq, i) == SubSeq(seq, 1, i - 1) \o SubSeq(seq, i + 1, Len(seq))

MarkStale(ts) == [i \in DOMAIN ts |-> [ts[i] EXCEPT !.stale = TRUE]]

\* op: the handler or continuation that ran; res: how it ended; loc: the
\* locator whose processing it ran; stale: it continued a call that a later
\* navigation or reset had superseded
Event(op, res, loc, stale) == [op |-> op, res |-> res, loc |-> loc, stale |-> stale]

Opt(r, f, d) == IF f \in DOMAIN r THEN r[f] ELSE d

\* what the template shows (v-if) decides which handlers a user can reach
FormVisible == allEntities = <<>> /\ ~isLoading

MainVisible == allEntities # <<>> /\ ~isLoading

\* the inputs a user or a document can supply
InputUrls == {Url(<<"">>)}

Refs == {Str(<<"s", "">>), Str(<<"..", "">>)}

Queries == {"", " ", "./", "b"}

SEARCH_LIMIT == 50

FILE_NAME == Str(<<"f.json">>)

\* crate ids the indexing service can answer with for a URL
ServiceIds(url) == {url}

\* ------------------------------------------------------------ loadFromUrl
\* loadFromUrl up to its first await; inputUrl is the value of the ref of
\* that name, which every caller sets just before the call
loadFromUrl(s0, ts, inputUrl) ==
  IF Falsy(inputUrl) THEN [st |-> s0, tasks |-> ts, res |-> "noop"] ELSE
  LET s1 == [s0 EXCEPT !.errorMsg = NULL]
      isFirstCrate == s1.rootCrateUrl = NoUrl
      fetchUrl == inputUrl
      older == MarkStale(ts)
  IN IF CacheHas(s1, fetchUrl)
     THEN LET s2 == [s1 EXCEPT !.baseUrl = BaseUrlOf(fetchUrl)]
              r == processCrateData(s2, s2.crateCache[fetchUrl].json,
                                    "Remote Crate (Cached)", fetchUrl, isFirstCrate)
          IN [st |-> r.st, tasks |-> older, res |-> r.out, loc |-> fetchUrl]
     ELSE [st |-> [s1 EXCEPT !.isLoading = TRUE],
           tasks |-> Append(older, Task("loadFromUrl",
                                     IF isStateless THEN "fetch" ELSE "summary",
                                     fetchUrl, "Remote Crate", fetchUrl, isFirstCrate,
                                     NoUrl)),
           res |-> "loading", loc |-> fetchUrl]

\* a handler that awaits processCrateData: run it to its first await and,
\* when it returned without suspending, run the finally block
AwaitProcess(s, ts, i, json) ==
  LET t == ts[i]
      r == processCrateData(s, json, t.sourceName, t.sourceUrl, t.isFirstCrate)
  IN IF r.out = "await"
     THEN [st |-> r.st,
           tasks |-> [ts EXCEPT ![i] = Processing(t, json, TRUE)],
           res |-> "await", loc |-> t.sourceUrl, stale |-> t.stale]
     ELSE [st |-> [r.st EXCEPT !.isLoading = FALSE], tasks |-> RemoveAt(ts, i),
           res |-> r.out, loc |-> t.sourceUrl, stale |-> t.stale]

\* fetchMetadata calls processCrateData without awaiting it, and so does
\* loadFromPastedJson: the caller's finally runs while the expansion is pending
DetachedProcess(s, ts, i, json) ==
  LET t == ts[i]
      r == processCrateData(s, json, t.sourceName, t.sourceUrl, t.isFirstCrate)
  IN IF r.out = "await"
     THEN [st |-> [r.st EXCEPT !.isLoading = FALSE],
           tasks |-> [ts EXCEPT ![i] = Processing(t, json, FALSE)],
           res |-> "await", loc |-> t.sourceUrl, stale |-> t.stale]
     ELSE [st |-> [r.st EXCEPT !.isLoading = FALSE], tasks |-> RemoveAt(ts, i),
           res |-> r.out, loc |-> t.sourceUrl, stale |-> t.stale]

\* a throw that reaches the catch and finally of the handler
HandlerThrows(s, ts, i, msg) ==
  [st |-> [s EXCEPT !.errorMsg = msg, !.isLoading = FALSE], tasks |-> RemoveAt(ts, i),
   res |-> "error", stale |-> ts[i].stale]

\* ------------------------------------------------------------- observer
\* mon follows one handleSubcrateOpen from its call to its end and the goBack
\* issued right after it.  L, n and base are currentUrl, the length of
\* historyStack and baseUrl when handleSubcrateOpen was called, N and S are
\* currentCrateName and historyStack then; ready says
\* that nothing was in flight then and that the stack was empty exactly at
\* the root, as it is when no earlier operation has failed.  After resetApp it is in phase "reset"
\* until the user starts the next operation.  Any other step returns it to
\* Idle.  A goBack that returns at once on an empty stack ends the pair too.
\* It follows a goBack or goToBreadcrumb as well (phases "nav", "navDone"):
\* via is the handler and T the locator it asked loadFromUrl for; steps of
\* calls that were in flight before do not end this phase.
Idle == [phase |-> "idle", L |-> NoUrl, n |-> 0, base |-> NoUrl, ready |-> FALSE,
         N |-> "", S |-> <<>>, T |-> NoUrl, via |-> ""]

MonNext(op, res, loc, stale) ==
  LET snap == [Idle EXCEPT !.phase = "open", !.L = currentUrl,
                           !.n = Len(historyStack), !.base = baseUrl,
                           !.N = currentCrateName, !.S = historyStack,
                           !.ready = /\ tasks = <<>>
                                     /\ (historyStack = <<>>) <=> (currentUrl = rootCrateUrl)]
      step == op \in {"subcrateFetch", "loadFetch", "loadSummary", "metadata",
                      "expanded", "processed"}
      to == [m \in {mon, Idle} |-> [m EXCEPT !.T = loc, !.via = op]]
  IN IF op = "resetApp" THEN [Idle EXCEPT !.phase = "reset"]
     ELSE IF step /\ mon.phase = "reset" THEN mon
     ELSE IF op = "handleSubcrateOpen"
     THEN IF res = "loading" THEN snap
          ELSE IF res = "cached" THEN [snap EXCEPT !.phase = "opened"]
          ELSE Idle
     ELSE IF op = "goBack" /\ mon.phase = "opened"
     THEN IF res = "loading" THEN [to[mon] EXCEPT !.phase = "back"]
          ELSE IF res = "cached" THEN [to[mon] EXCEPT !.phase = "done"]
          ELSE IF res = "noop" THEN [mon EXCEPT !.phase = "done"]
          ELSE Idle
     ELSE IF op \in {"goBack", "goToBreadcrumb"}
     THEN IF res = "loading" THEN [to[Idle] EXCEPT !.phase = "nav"]
          ELSE IF res = "cached" THEN [to[Idle] EXCEPT !.phase = "navDone"]
          ELSE Idle
     ELSE IF step /\ stale /\ mon.phase = "nav" THEN mon
     ELSE IF step /\ ~stale /\ mon.phase \in {"open", "back", "nav"}
     THEN IF res \in {"await", "metadata", "hints"} THEN mon
          ELSE IF res \in {"ok", "expandFailed", "cached"}
            THEN [mon EXCEPT !.phase = IF mon.phase = "open" THEN "opened"
                                       ELSE IF mon.phase = "back" THEN "done"
                                       ELSE "navDone"]
          ELSE IF res = "error" /\ mon.phase = "open"
            THEN [mon EXCEPT !.phase = "fetchFailed"]
          ELSE Idle
     ELSE Idle

Do(r, op) ==
  /\ Becomes(r.st)
  /\ tasks' = r.tasks
  /\ ev' = Event(op, r.res, Opt(r, "loc", NoUrl), Opt(r, "stale", FALSE))
  /\ mon' = MonNext(op, r.res, Opt(r, "loc", NoUrl), Opt(r, "stale", FALSE))
  /\ UNCHANGED isStateless

\* the Load button of the form (and the crateUrl parameter at mount)
CallLoadFromUrl ==
  /\ FormVisible
  /\ \E u \in InputUrls :
        /\ CacheHas(Cur, u) \/ Len(tasks) < MaxTasks
        /\ Do(loadFromUrl(Cur, tasks, u), "loadFromUrl")

\* fetchCrateFromUrl returns or throws: stateless loadFromUrl, lines 588-604
LoadFetchReturns ==
  \E i \in DOMAIN tasks : \E d \in RemoteDocs(tasks[i].fetchUrl) \cup {NoDoc} :
    LET t == tasks[i] IN
    /\ t.kind = "loadFromUrl" /\ t.pc = "fetch"
    /\ IF d = NoDoc \/ ~validateRoCrateJson(d)
       THEN Do(HandlerThrows(Cur, tasks, i, "Error loading URL"), "loadFetch")
       ELSE Do(AwaitProcess([Cur EXCEPT !.currentUrl = t.fetchUrl,
                                        !.baseUrl = BaseUrlOf(t.fetchUrl)],
                            tasks, i, d),
               "loadFetch")

\* the POST to the indexing service returns: stateful loadFromUrl, 608-674
LoadSummaryReturns ==
  \E i \in DOMAIN tasks : \E outcome \in {"ok", "409", "error"} :
    LET t == tasks[i] IN
    /\ t.kind = "loadFromUrl" /\ t.pc = "summary"
    /\ IF outcome = "error"
       THEN Do(HandlerThrows(Cur, tasks, i, "Error loading URL"), "loadSummary")
       ELSE \E crateId \in ServiceIds(t.fetchUrl) :
              Do([st |-> [Cur EXCEPT !.baseUrl = BaseUrlOf(crateId)],
                  tasks |-> [tasks EXCEPT ![i] =
                     [t EXCEPT !.pc = "metadata",
                               !.sourceName = IF outcome = "409"
                                              THEN "Remote Crate (Indexed)"
                                              ELSE "Remote Crate"]],
                  res |-> "metadata", stale |-> t.stale],
                 "loadSummary")

\* fetchMetadata's fetch returns, for every handler that awaits it
MetadataReturns ==
  \E i \in DOMAIN tasks : \E d \in MetadataDocs(tasks[i].fetchUrl) \cup {NoDoc} :
    LET t == tasks[i] IN
    /\ t.pc = "metadata"
    /\ IF d = NoDoc
       THEN Do(HandlerThrows(Cur, tasks, i,
                             IF t.kind = "loadFromUrl" THEN "Error loading URL"
                             ELSE IF t.kind = "handleSubcrateOpen"
                               THEN "Error loading subcrate"
                             ELSE "File error"),
               "metadata")
       ELSE Do(DetachedProcess(Cur, tasks, i, d), "metadata")

\* ------------------------------------- processCrateData after its awaits
\* the end of a suspended processCrateData, and of the handler awaiting it
Complete(s, ts, i, res) ==
  [st |-> IF ts[i].awaited THEN [s EXCEPT !.isLoading = FALSE] ELSE s,
   tasks |-> RemoveAt(ts, i), res |-> res, loc |-> ts[i].sourceUrl,
   stale |-> ts[i].stale]

\* jsonld.expand(json) returns or throws (lines 468-478).  Without a
\* context buildLinkedDataHints returns {} at once.
ExpandReturns ==
  \E i \in DOMAIN tasks : \E ok \in BOOLEAN :
    LET t == tasks[i] IN
    /\ t.pc = "expand"
    /\ IF ~ok
       THEN Do(Complete(ProcessFinish([Cur EXCEPT !.expandedCrate = <<>>,
                                                  !.linkedDataHints = {}],
                                      t, <<>>, {}),
                        tasks, i, "expandFailed"),
               "processed")
       ELSE LET expanded == ExpandedOf(t.json)
                s1 == [Cur EXCEPT !.expandedCrate = expanded]
            IN IF ~t.json.ctx
               THEN Do(Complete(ProcessFinish([s1 EXCEPT !.linkedDataHints = {}],
                                              t, expanded, {}),
                                tasks, i, "ok"),
                       "processed")
               ELSE Do([st |-> s1,
                        tasks |-> [tasks EXCEPT ![i] = [t EXCEPT !.pc = "hints",
                                                                 !.expanded = expanded]],
                        res |-> "hints", stale |-> t.stale],
                       "expanded")

\* buildLinkedDataHints returns (lines 472-499)
HintsReturn ==
  \E i \in DOMAIN tasks :
    LET t == tasks[i]
        hints == buildLinkedDataHints(t.json)
    IN /\ t.pc = "hints"
       /\ Do(Complete(ProcessFinish([Cur EXCEPT !.linkedDataHints = hints],
                                     t, t.expanded, hints),
                       tasks, i, "ok"),
             "processed")

\* ----------------------------------------------------- handleSubcrateOpen
\* lines 894-941: the directory of the referenced crate and the name of its
\* metadata file
SubcrateTarget(subcrateId, base) ==
  LET full == NewURLBase(subcrateId, base)
      resolvedUrl == IF full # NoUrl THEN full ELSE subcrateId
      last == Last(resolvedUrl.segs)
      matched == IF resolvedUrl.abs THEN IsMetaName(last)
                 ELSE Len(resolvedUrl.segs) >= 2 /\ IsMetaName(last)
      dir == IF matched THEN [resolvedUrl EXCEPT !.segs = Append(Front(@), "")]
             ELSE WithSlash(resolvedUrl)
  IN [subcrateBaseUrl |-> IF dir = EmptyStr THEN Str(<<".">>) ELSE dir,
      metadataFilename |-> IF matched THEN last ELSE META]

\* lines 968-979: the URL the metadata document is fetched from
SubcrateFetchUrl(target) ==
  IF target.subcrateBaseUrl = Str(<<".">>) THEN Str(<<target.metadataFilename>>)
  ELSE LET b == WithSlash(target.subcrateBaseUrl)
       IN [b EXCEPT !.segs = Append(Front(@), target.metadataFilename)]

\* handleSubcrateOpen up to its first await
handleSubcrateOpen(s0, ts, subcrateId) ==
  IF Falsy(s0.baseUrl) THEN [st |-> s0, tasks |-> ts, res |-> "noop"] ELSE
  LET s1 == [s0 EXCEPT !.historyStack =
                Append(@, [name |-> s0.currentCrateName,
                           url |-> IF ~Falsy(s0.currentUrl) THEN s0.currentUrl
                                   ELSE s0.baseUrl])]
      target == SubcrateTarget(subcrateId, s1.baseUrl)
      subcrateBaseUrl == target.subcrateBaseUrl
      s2 == [s1 EXCEPT !.errorMsg = NULL]
      cacheKey == WithSlash(subcrateBaseUrl)
      older == MarkStale(ts)
  IN IF CacheHas(s2, cacheKey) /\ isStateless
     THEN LET s3 == [s2 EXCEPT !.baseUrl = cacheKey, !.currentUrl = cacheKey]
              r == processCrateData(s3, s3.crateCache[cacheKey].json,
                                    "Subcrate (Cached)", cacheKey, FALSE)
          IN [st |-> r.st, tasks |-> older, res |-> r.out, loc |-> cacheKey]
     ELSE IF isStateless
     THEN [st |-> [s2 EXCEPT !.isLoading = TRUE],
           tasks |-> Append(older, Task("handleSubcrateOpen", "fetch",
                                        SubcrateFetchUrl(target), "Subcrate", cacheKey,
                                        FALSE, subcrateBaseUrl)),
           res |-> "loading", loc |-> cacheKey]
     ELSE [st |-> [s2 EXCEPT !.isLoading = TRUE, !.baseUrl = cacheKey,
                             !.currentUrl = cacheKey],
           tasks |-> Append(older, Task("handleSubcrateOpen", "metadata",
                                        cacheKey, "Subcrate", cacheKey, FALSE,
                                        subcrateBaseUrl)),
           res |-> "loading", loc |-> cacheKey]

\* the open-subcrate event of the entity view
CallHandleSubcrateOpen ==
  /\ MainVisible
  /\ Len(historyStack) < MaxHistory
  /\ \E ref \in Refs :
       LET key == WithSlash(SubcrateTarget(ref, baseUrl).subcrateBaseUrl) IN
        /\ ~Falsy(baseUrl) => Len(key.segs) <= MaxSegs
        /\ (CacheHas(Cur, key) /\ isStateless) \/ Len(tasks) < MaxTasks
        /\ Do(handleSubcrateOpen(Cur, tasks, ref), "handleSubcrateOpen")

\* fetchCrateFromUrl returns or throws: stateless handleSubcrateOpen, 981-988
SubcrateFetchReturns ==
  \E i \in DOMAIN tasks : \E d \in RemoteDocs(tasks[i].fetchUrl) \cup {NoDoc} :
    LET t == tasks[i] IN
    /\ t.kind = "handleSubcrateOpen" /\ t.pc = "fetch"
    /\ IF d = NoDoc \/ ~validateRoCrateJson(d)
       THEN Do(HandlerThrows(Cur, tasks, i, "Error loading subcrate"),
               "subcrateFetch")
       ELSE Do(AwaitProcess([Cur EXCEPT !.baseUrl = WithSlash(t.subBase),
                                        !.currentUrl = WithSlash(t.subBase)],
                            tasks, i, d),
               "subcrateFetch")

\* ------------------------------------------- goToBreadcrumb, goBack, reset
\* goToBreadcrumb without the slice at line 1015
goToBreadcrumbNoCut(s, ts, index) ==
  IF index \notin DOMAIN s.historyStack \/ Falsy(s.historyStack[index].url)
  THEN [st |-> s, tasks |-> ts, res |-> "noop"]
  ELSE loadFromUrl(s, ts, s.historyStack[index].url)

goToBreadcrumb(s, ts, index) ==
  IF index \notin DOMAIN s.historyStack \/ Falsy(s.historyStack[index].url)
  THEN [st |-> s, tasks |-> ts, res |-> "noop"]
  ELSE loadFromUrl([s EXCEPT !.historyStack = SubSeq(@, 1, index - 1)], ts,
                   s.historyStack[index].url)

\* goBack without the pop at line 1026
goBackNoPop(s, ts) ==
  IF s.historyStack = <<>> THEN [st |-> s, tasks |-> ts, res |-> "noop"]
  ELSE LET parent == Last(s.historyStack)
       IN IF Falsy(parent.url) THEN [st |-> s, tasks |-> ts, res |-> "noop"]
          ELSE loadFromUrl(s, ts, parent.url)

goBack(s, ts) ==
  IF s.historyStack = <<>> THEN [st |-> s, tasks |-> ts, res |-> "noop"]
  ELSE LET parent == Last(s.historyStack)
           s1 == [s EXCEPT !.historyStack = Front(@)]
       IN IF Falsy(parent.url) THEN [st |-> s1, tasks |-> ts, res |-> "noop"]
          ELSE loadFromUrl(s1, ts, parent.url)

\* goToBreadcrumb is called with an index of the stack or with the first
\* index past its end, where its own test at line 1013 makes it return at once
CallGoToBreadcrumb ==
  /\ MainVisible
  /\ \E index \in 1..(Len(historyStack) + 1) :
        /\ IF index \notin DOMAIN historyStack THEN TRUE
           ELSE CacheHas(Cur, historyStack[index].url) \/ Len(tasks) < MaxTasks
        /\ Do(goToBreadcrumb(Cur, tasks, index), "goToBreadcrumb")

\* goBack is called with the stack as it is: on an empty stack (where the
\* Back button is disabled) its own test at line 1024 makes it return at once
CallGoBack ==
  /\ MainVisible
  /\ IF historyStack = <<>> THEN TRUE
     ELSE CacheHas(Cur, Last(historyStack).url) \/ Len(tasks) < MaxTasks
  /\ Do(goBack(Cur, tasks), "goBack")

resetApp(s) ==
  clearSearchIndex(
    [s EXCEPT !.crate = NoDoc, !.allEntities = <<>>, !.linkedDataHints = {},
              !.historyStack = <<>>, !.currentUrl = NoUrl, !.errorMsg = NULL,
              !.baseUrl = EmptyStr,
              !.crateCache = <<>>, !.rootCrateUrl = NoUrl])

\* a click on the title, which is there in every view
CallResetApp ==
  /\ Len(tasks) <= MaxTasks
  /\ Do([st |-> resetApp(Cur), tasks |-> MarkStale(tasks),
         res |-> IF crateCache # <<>> THEN "cleared" ELSE "empty"],
        "resetApp")

\* ------------------------------------------- pasted, shared and uploaded
\* loadFromPastedJson: JSON.parse throws (NoDoc) or gives a document that
\* is processed without validation and without being awaited
CallLoadFromPastedJson ==
  /\ FormVisible
  /\ Len(tasks) < MaxTasks
  /\ \E d \in PastedDocs \cup {NoDoc} :
       LET s1 == [Cur EXCEPT !.isLoading = TRUE, !.errorMsg = NULL, !.baseUrl = EmptyStr]
           ts == Append(MarkStale(tasks),
                        Task("loadFromPastedJson", "parse", NoUrl, "Pasted Crate",
                             NoUrl, TRUE, NoUrl))
       IN IF d = NoDoc
          THEN Do(HandlerThrows(s1, ts, Len(ts), "Paste error"), "loadFromPastedJson")
          ELSE Do(DetachedProcess(s1, ts, Len(ts), d), "loadFromPastedJson")

\* onMounted with a crate parameter: processCrateData on the shared document
MountShared ==
  /\ ev.op = "init"
  /\ \E d \in SharedDocs :
       LET ts == Append(tasks, Task("onMounted", "parse", NoUrl, "Shared Crate",
                                    NoUrl, TRUE, NoUrl))
           r == DetachedProcess(Cur, ts, Len(ts), d)
       IN Do([r EXCEPT !.st.isLoading = isLoading], "onMounted")

\* handleFileUpload up to its first await
CallHandleFileUpload ==
  /\ FormVisible
  /\ Len(tasks) < MaxTasks
  /\ Do([st |-> [Cur EXCEPT !.isLoading = TRUE, !.errorMsg = NULL, !.baseUrl = EmptyStr],
          tasks |-> Append(MarkStale(tasks),
                           Task("handleFileUpload",
                                IF isStateless THEN "file" ELSE "upload",
                                FILE_NAME, "f.json", NoUrl, TRUE, NoUrl)),
          res |-> "loading"],
         "handleFileUpload")

\* loadCrateFromFile returns or throws: stateless handleFileUpload, 713-719
FileReturns ==
  \E i \in DOMAIN tasks : \E d \in RemoteDocs(tasks[i].fetchUrl) \cup {NoDoc} :
    LET t == tasks[i] IN
    /\ t.pc = "file"
    /\ IF d = NoDoc \/ ~validateRoCrateJson(d)
       THEN Do(HandlerThrows(Cur, tasks, i, "File error"), "fileRead")
       ELSE Do(AwaitProcess([Cur EXCEPT !.currentUrl = t.fetchUrl],
                            tasks, i, d),
               "fileRead")

\* the upload POST returns: stateful handleFileUpload, 726-742
UploadReturns ==
  \E i \in DOMAIN tasks : \E ok \in BOOLEAN :
    LET t == tasks[i] IN
    /\ t.pc = "upload"
    /\ IF ~ok
       THEN Do(HandlerThrows(Cur, tasks, i, "File error"), "uploadSummary")
       ELSE \E crateId \in ServiceIds(Str(<<"id1">>)) :
              Do([st |-> [Cur EXCEPT !.baseUrl = WithSlash(crateId)],
                  tasks |-> [tasks EXCEPT ![i] = [t EXCEPT !.pc = "metadata"]],
                  res |-> "metadata", stale |-> t.stale],
                 "uploadSummary")

\* ------------------------------------------------------------------ search
HasEntity(entities, entityId) == \E i \in DOMAIN entities : entities[i].id = entityId

selectEntity(s, id) == [s EXCEPT !.selectedEntityId = id]

handleSearchSelect(s0, result) ==
  LET isInCurrentCrate == \/ s0.currentUrl = result.crateId
                          \/ HasEntity(s0.allEntities, result.entityId)
      navigate == ~isInCurrentCrate /\ ~Falsy(result.crateId)
                  /\ CacheHas(s0, result.crateId)
      r == IF navigate
           THEN processCrateData([s0 EXCEPT !.baseUrl = BaseUrlOf(result.crateId)],
                                 s0.crateCache[result.crateId].json, "Cached Crate",
                                 result.crateId, FALSE)
           ELSE [st |-> s0, out |-> "current"]
  IN [st |-> selectEntity(r.st, result.entityId), out |-> r.out,
      loc |-> IF navigate THEN result.crateId ELSE NoUrl]

\* The user opens the search overlay (its button is there while allEntities
\* is not empty), runs a search (runSearch puts localSearch's answer into
\* searchResults) and clicks one of the results; the handler empties
\* searchResults again, so the list is not kept as state.
CallHandleSearchSelect ==
  /\ allEntities # <<>>
  /\ \E query \in Queries :
    LET searchResults == localSearch(Cur, query, SEARCH_LIMIT) IN
    \E k \in DOMAIN searchResults :
       LET r == handleSearchSelect(Cur, searchResults[k])
       IN Do([st |-> r.st,
              tasks |-> IF r.out = "current" THEN tasks ELSE MarkStale(tasks),
              res |-> r.out, loc |-> r.loc],
             "handleSearchSelect")

\* ------------------------------------------------------------ specification
InitRefs ==
  /\ currentUrl = InitState.currentUrl
  /\ crate = InitState.crate
  /\ currentCrateName = InitState.currentCrateName
  /\ historyStack = InitState.historyStack
  /\ allEntities = InitState.allEntities
  /\ expandedCrate = InitState.expandedCrate
  /\ linkedDataHints = InitState.linkedDataHints
  /\ selectedEntityId = InitState.selectedEntityId
  /\ crateCache = InitState.crateCache
  /\ rootCrateUrl = InitState.rootCrateUrl
  /\ isLoading = InitState.isLoading
  /\ baseUrl = InitState.baseUrl
  /\ errorMsg = InitState.errorMsg
  /\ indexData = InitState.indexData
  /\ fuseInstance = InitState.fuseInstance
  /\ tasks = <<>>
  /\ ev = Event("init", "ok", NoUrl, FALSE)
  /\ mon = Idle

\* the stateless build (VITE_BUILD_MODE unset or "stateless")
Init == InitRefs /\ isStateless = TRUE

Next ==
  \/ CallLoadFromUrl
  \/ LoadFetchReturns
  \/ ExpandReturns
  \/ HintsReturn
  \/ CallHandleSubcrateOpen
  \/ SubcrateFetchReturns
  \/ CallGoToBreadcrumb
  \/ CallGoBack
  \/ CallResetApp
  \/ CallLoadFromPastedJson
  \/ MountShared
  \/ CallHandleFileUpload
  \/ FileReturns
  \/ CallHandleSearchSelect

Spec == Init /\ [][Next]_vars

\* the stateless build in which every fetch, file read and expansion that
\* is awaited returns or throws in the end
SpecLive ==
  /\ Spec
  /\ WF_vars(LoadFetchReturns)
  /\ WF_vars(SubcrateFetchReturns)
  /\ WF_vars(FileReturns)
  /\ WF_vars(ExpandReturns)
  /\ WF_vars(HintsReturn)

\* the stateful build (VITE_BUILD_MODE = "stateful"), which loads through
\* the indexing service: the navigation over URLs.  (There the search
\* overlay lists the hits of the indexing service.)
InitStateful == InitRefs /\ isStateless = FALSE

NextStateful ==
  \/ CallLoadFromUrl
  \/ LoadSummaryReturns
  \/ MetadataReturns
  \/ ExpandReturns
  \/ HintsReturn
  \/ CallHandleSubcrateOpen
  \/ CallGoToBreadcrumb
  \/ CallGoBack
  \/ CallResetApp

SpecStateful == InitStateful /\ [][NextStateful]_vars

\* the stateful build again: the sessions that start from an uploaded file
\* and go on by opening the subcrates it refers to
NextUpload ==
  \/ CallHandleFileUpload
  \/ UploadReturns
  \/ MetadataReturns
  \/ ExpandReturns
  \/ HintsReturn
  \/ CallHandleSubcrateOpen
  \/ CallResetApp

SpecUpload == InitStateful /\ [][NextUpload]_vars

\* ------------------------------- nested references to metadata documents
\* the stateless build with the URLs a user can type, an absolute one and a
\* relative one (for which new URL throws, 599-601), and with the
\* references a crate can hold to a nested crate: its directory with and
\* without the trailing slash, its metadata documents, and the same for the
\* directory of the referring crate
TypedUrls == InputUrls \cup {Str(<<"c">>)}

MetaRefs ==
  {Str(<<"s">>), Str(<<"s", "">>), Str(<<"s", META>>),
   Str(<<"s", "a-" \o META>>), Str(<<"s", "b-" \o META>>),
   EmptyStr, Str(<<META>>), Str(<<".", "">>)}

\* the Load button of the form with any of the typed URLs, pressed while no
\* call is suspended and no package has been cached
CallLoadFromTypedUrl ==
  /\ FormVisible
  /\ tasks = <<>>
  /\ DOMAIN crateCache = {}
  /\ \E u \in TypedUrls :
        /\ Do(loadFromUrl(Cur, tasks, u), "loadFromUrl")

\* the open-subcrate event of the entity view for any of the references,
\* while no call is suspended
CallOpenMetaRef ==
  /\ MainVisible
  /\ tasks = <<>>
  /\ Len(historyStack) < MaxHistory
  /\ \E ref \in MetaRefs :
       LET key == WithSlash(SubcrateTarget(ref, baseUrl).subcrateBaseUrl) IN
        /\ ~Falsy(baseUrl) => Len(key.segs) <= MaxSegs
        /\ Do(handleSubcrateOpen(Cur, tasks, ref), "handleSubcrateOpen")

SpecSubcrate ==
  Init /\ [][\/ CallLoadFromTypedUrl
              \/ LoadFetchReturns
              \/ ExpandReturns
              \/ HintsReturn
              \/ CallOpenMetaRef
              \/ SubcrateFetchReturns
              \/ CallGoBack]_vars

\* ------------------------------------------- the services on their own
\* the functions of crateLoader.ts and searchService.ts called directly, as
\* App.vue calls them, with the documents and entity lists a caller can pass
\* and while no call of the application is suspended
ValidatorDocs == {D1, D2, DNull, DEmpty, DNoCtx, DNoRoot, DTwoRoots, NoDoc}

\* the @graph arrays of documents: also one with a null element and one in
\* which two entities have the same @id
EntityLists == {D1.graph, D2.graph, DNull.graph,
                <<Entity("a", NULL), Entity("a", "n1")>>}

ServiceCrateIds == {PRIMARY, Url(<<"">>)}

ServiceQueries == Queries \cup {"a"}

Limits == {1, SEARCH_LIMIT}

\* the call just made, what it was given and what it returned or threw
ServiceEvent(op, res, arg) ==
  [op |-> op, res |-> res, arg |-> arg, loc |-> NoUrl, stale |-> FALSE]

ServiceDo(s, op, res, arg) ==
  /\ Becomes(s)
  /\ ev' = ServiceEvent(op, res, arg)
  /\ UNCHANGED <<isStateless, tasks, mon>>

CallValidateRoCrateJson ==
  /\ tasks = <<>>
  /\ \E d \in ValidatorDocs :
       ServiceDo(Cur, "validateRoCrateJson",
                 IF validateRoCrateJson(d) THEN "ok" ELSE "error", d)

CallBuildSearchIndex ==
  /\ tasks = <<>>
  /\ \E entities \in EntityLists : \E crateId \in ServiceCrateIds :
       ServiceDo(buildSearchIndex(Cur, entities, crateId), "buildSearchIndex",
                 IF HasNull(entities) THEN "threw" ELSE "ok",
                 [entities |-> entities, crateId |-> crateId])

CallAddToIndex ==
  /\ tasks = <<>>
  /\ \E entities \in EntityLists : \E crateId \in ServiceCrateIds :
       ServiceDo(addToIndex(Cur, entities, crateId), "addToIndex",
                 IF HasNull(entities) THEN "threw" ELSE "ok",
                 [entities |-> entities, crateId |-> crateId])

CallClearSearchIndex ==
  /\ tasks = <<>>
  /\ ServiceDo(clearSearchIndex(Cur), "clearSearchIndex", "ok", <<>>)

CallLocalSearch ==
  /\ tasks = <<>>
  /\ \E query \in ServiceQueries : \E limit \in Limits :
       ServiceDo(Cur, "localSearch", localSearch(Cur, query, limit),
                 [query |-> query, limit |-> limit])

NextService ==
  \/ CallValidateRoCrateJson
  \/ CallBuildSearchIndex
  \/ CallAddToIndex
  \/ CallClearSearchIndex
  \/ CallLocalSearch

SpecService == Init /\ [][NextService]_vars

\* ------------------------------------------------ App.vue: fileTree
\* entities as fileTree reads them: "@id", name (NULL when absent), "@type"
\* (its first element when it is an array, NULL when absent) and hasPart,
\* the list of the part identifiers (part["@id"] or part itself)
TreeEntity(id, name, type, hasPart) ==
  [id |-> id, name |-> name, desc |-> FALSE, type |-> type, hasPart |-> hasPart]

\* a name that is no string: the array ["x"]
ArrayName == "<array of x>"

\* getNodeName (188-192) for identifiers of one segment: the entity's name
\* when it has one, whatever its type, else the identifier
getNodeName(entity, id) ==
  IF entity # Undefined /\ entity.name # NULL THEN entity.name ELSE id

\* a part that is not a string and has no "@id" that is one
NonString == "<number>"

\* the part {"@id": ""}: a reference whose identifier is the empty string
EmptyIdRef == "<reference to the empty identifier>"

\* line 217, part["@id"] ? part["@id"] : part: a string part and a reference
\* with a non-empty identifier give the identifier; a reference whose "@id" is
\* falsy gives the reference itself, which is no string
PartId(part) == IF part = EmptyIdRef THEN NonString ELSE part

BROKEN_LINK == "Broken Link"

\* entityMap.get(entityId): Map.set keeps the last entity of an identifier
MapGet(entities, entityId) ==
  IF \E i \in DOMAIN entities : entities[i].id = entityId
  THEN entities[CHOOSE i \in DOMAIN entities :
                  /\ entities[i].id = entityId
                  /\ \A j \in (i + 1)..Len(entities) : entities[j].id # entityId]
  ELSE Undefined

\* the node of a loop gets the suffix " (Link)" (200); a name with the
\* suffix is a string
LINK_SUFFIX == " (Link)"

\* String.prototype.localeCompare on the names of the nodes; as its argument
\* the array ["x"] is converted to the string "x"
NameRank == [id \in {"./", ".", "a", "b", "c", "x", "z", ArrayName} |->
               CASE id = "./" -> 0 [] id = "." -> 1 [] id = "a" -> 2 [] id = "b" -> 3
                 [] id = "c" -> 4 [] id = "x" -> 5 [] id = "z" -> 6
                 [] id = ArrayName -> 5]

NameKey(node) == 2 * NameRank[node.name[1]] + (IF Len(node.name) = 2 THEN 1 ELSE 0)

\* the comparator of children.sort: Datasets first, then by name
Before(a, b) ==
  \/ a.type = "Dataset" /\ b.type # "Dataset"
  \/ (a.type = "Dataset") = (b.type = "Dataset") /\ NameKey(a) < NameKey(b)

\* Array.prototype.sort is stable: a node goes behind the nodes it is not before
RECURSIVE InsertNode(_, _)
InsertNode(sorted, node) ==
  IF sorted = <<>> THEN <<node>>
  ELSE IF Before(node, Head(sorted)) THEN <<node>> \o sorted
  ELSE <<Head(sorted)>> \o InsertNode(Tail(sorted), node)

RECURSIVE SortNodes(_)
SortNodes(nodes) ==
  IF nodes = <<>> THEN <<>>
  ELSE InsertNode(SortNodes(SubSeq(nodes, 1, Len(nodes) - 1)), nodes[Len(nodes)])

RECURSIVE buildTree(_, _, _)
RECURSIVE ChildNodes(_, _, _)
RECURSIVE ChildNodesSharedVisited(_, _, _)
RECURSIVE NodeIds(_)
\* the identifiers on the nodes of a tree
NodeIds(node) ==
  {node.id} \cup UNION {NodeIds(node.children[k]) : k \in DOMAIN node.children}

\* the loop over hasPart with one visited set for the whole build: a part
\* sees the identifiers of the parts before it and of their subtrees
ChildNodesSharedVisited(entities, parts, visited) ==
  IF parts = <<>> THEN <<>>
  ELSE IF PartId(Head(parts)) = NonString
       THEN ChildNodesSharedVisited(entities, Tail(parts), visited)
  ELSE LET node == buildTree(entities, PartId(Head(parts)), visited)
       IN <<node>> \o ChildNodesSharedVisited(entities, Tail(parts),
                                                visited \cup NodeIds(node))

\* parts.forEach (lines 214-219): one child per part whose identifier is a string
ChildNodes(entities, parts, visited) ==
  IF parts = <<>> THEN <<>>
  ELSE (IF PartId(Head(parts)) = NonString THEN <<>>
        ELSE <<buildTree(entities, PartId(Head(parts)), visited)>>)
       \o ChildNodes(entities, Tail(parts), visited)

\* buildTree that does not enter the root's identifier into the visited set
buildTreeRootNotVisited(entities, entityId, visited) ==
  LET entity == MapGet(entities, entityId)
  IN IF entityId \in visited
     THEN [name |-> <<getNodeName(entity, entityId), LINK_SUFFIX>>, id |-> entityId, type |-> "Link",
           children |-> <<>>]
     ELSE LET currentVisited == IF visited = {} THEN {NonString}
                                ELSE visited \cup {entityId}
              parts == IF entity # Undefined THEN entity.hasPart ELSE <<>>
          IN [name |-> <<getNodeName(entity, entityId)>>, id |-> entityId,
              type |-> IF entity # Undefined /\ entity.type # NULL THEN entity.type
                       ELSE IF entity = Undefined THEN BROKEN_LINK ELSE "File",
              children |-> SortNodes(ChildNodes(entities, parts, currentVisited))]

\* buildTree without the loop detection of lines 197-206, cut off below the
\* depth of four nodes
buildTreeNoLoopCheck(entities, entityId, visited) ==
  LET entity == MapGet(entities, entityId)
      currentVisited == visited \cup {<<entityId, Cardinality(visited)>>}
      parts == IF entity # Undefined /\ Cardinality(visited) < 3
               THEN entity.hasPart ELSE <<>>
  IN [name |-> <<getNodeName(entity, entityId)>>, id |-> entityId,
      type |-> IF entity # Undefined /\ entity.type # NULL THEN entity.type
               ELSE IF entity = Undefined THEN BROKEN_LINK ELSE "File",
      children |-> SortNodes(ChildNodes(entities, parts, currentVisited))]

buildTree(entities, entityId, visited) ==
  LET entity == MapGet(entities, entityId)
  IN IF entityId \in visited
     THEN [name |-> <<getNodeName(entity, entityId), LINK_SUFFIX>>, id |-> entityId, type |-> "Link",
           children |-> <<>>]
     ELSE LET currentVisited == visited \cup {entityId}
              parts == IF entity # Undefined THEN entity.hasPart ELSE <<>>
          IN [name |-> <<getNodeName(entity, entityId)>>, id |-> entityId,
              type |-> IF entity # Undefined /\ entity.type # NULL THEN entity.type
                       ELSE IF entity = Undefined THEN BROKEN_LINK ELSE "File",
              children |-> SortNodes(ChildNodes(entities, parts, currentVisited))]

\* the computed fileTree (lines 168-250) of a state
fileTree(s) ==
  LET rootEntity == IF RootDataset(s.crate) # Undefined THEN RootDataset(s.crate)
                    ELSE FindRoot(s.allEntities)
  IN IF rootEntity = Undefined
     THEN [name |-> <<s.currentCrateName>>, id |-> "./", type |-> "Dataset",
           children |-> <<>>]
     ELSE buildTree(s.allEntities, rootEntity.id, {})

\* the entity sets fileTree is computed from: each of four identifiers is
\* absent or an entity with one of a few types and hasPart lists, among them
\* loops, a shared part, an identifier without entity ("z"), a part that
\* is not a string and a reference to the empty identifier; "a" and "b" may
\* have a name, a string or an array
TreeGraphs ==
  LET Shapes(id, names, types, lists) ==
        {<<>>} \cup {<<TreeEntity(id, n, t, h)>> :
                       n \in names, t \in types, h \in lists}
  IN
  {r \o a \o b \o c :
     r \in Shapes("./", {NULL}, {"Dataset", NULL},
                  {<<>>, <<"a">>, <<"a", "b">>, <<"b", "a">>, <<"./">>,
                   <<"z", NonString>>, <<"a", "a">>}),
     a \in Shapes("a", {NULL, "x", ArrayName}, {"Dataset", "File", "Person"},
                  {<<>>, <<"c">>, <<"./">>, <<"b">>, <<"a">>}),
     b \in Shapes("b", {NULL, ArrayName}, {"Dataset", "File"},
                  {<<>>, <<"c">>, <<"a">>}),
     c \in Shapes("c", {NULL}, {"Dataset", "File"},
                  {<<>>, <<"a">>, <<"z">>, <<EmptyIdRef>>})}

\* a document has been processed: allEntities is its @graph (line 452) and
\* crate the ROCrate made of it (line 450)
InitTree ==
  /\ \E g \in TreeGraphs :
        /\ allEntities = g
        /\ crate = [id |-> "tree", ctx |-> TRUE, graph |-> g]
  /\ currentUrl = InitState.currentUrl
  /\ currentCrateName = InitState.currentCrateName
  /\ historyStack = InitState.historyStack
  /\ expandedCrate = InitState.expandedCrate
  /\ linkedDataHints = InitState.linkedDataHints
  /\ selectedEntityId = InitState.selectedEntityId
  /\ crateCache = InitState.crateCache
  /\ rootCrateUrl = InitState.rootCrateUrl
  /\ isLoading = InitState.isLoading
  /\ baseUrl = InitState.baseUrl
  /\ errorMsg = InitState.errorMsg
  /\ indexData = InitState.indexData
  /\ fuseInstance = InitState.fuseInstance
  /\ tasks = <<>>
  /\ ev = Event("init", "ok", NoUrl, FALSE)
  /\ mon = Idle
  /\ isStateless = TRUE

\* children.sort (224-231) calls a.name.localeCompare when a and b are both
\* Datasets or both not, and that throws a TypeError when a.name is no
\* string.  Which of two nodes is a is up to the engine.  Children that sort
\* next to each other are compared, so the sort of a node's children throws
\* for certain when two or more of them are of one group and none of these
\* has a string as its name, and it can throw when one of them has not.
RECURSIVE SortThrows(_, _)
SortThrows(node, certain) ==
  LET IsString(n) == Len(n.name) = 2 \/ n.name[1] # ArrayName
      Group(k) == {j \in DOMAIN node.children :
                     (node.children[j].type = "Dataset")
                       = (node.children[k].type = "Dataset")}
  IN \/ \E k \in DOMAIN node.children :
           /\ Cardinality(Group(k)) >= 2
           /\ IF certain THEN \A j \in Group(k) : ~IsString(node.children[j])
              ELSE \E j \in Group(k) : ~IsString(node.children[j])
     \/ \E k \in DOMAIN node.children : SortThrows(node.children[k], certain)

\* what the template gets when a sort has thrown
TypeError == [name |-> <<"TypeError">>, id |-> "TypeError", type |-> "TypeError",
              children |-> <<>>]

\* the template reads fileTree.value
ComputeFileTree ==
  /\ tasks = <<>>
  /\ \E throws \in BOOLEAN :
        /\ SortThrows(fileTree(Cur), TRUE) => throws
        /\ throws => SortThrows(fileTree(Cur), FALSE)
        /\ IF throws
           THEN ServiceDo(Cur, "fileTreeThrew", TypeError, Len(allEntities))
           ELSE ServiceDo(Cur, "fileTree", fileTree(Cur), Len(allEntities))

SpecTree == InitTree /\ [][ComputeFileTree]_vars

\* ---------------------------------- App.vue: buildLinkedDataHints in detail
\* an entity as buildLinkedDataHints reads it: "@id" and the names of its
\* properties other than "@id" and "@type", in the order of Object.keys (328)
HintEntity(id, props) == [id |-> id, props |-> props]

PropNames == {"name", "author"}

\* the IRI the context gives a property name
Iri(propName) == <<"iri", propName>>

\* the values of an expanded node: a reference {"@id": t} and a literal
\* {"@value": x}
Ref(t) == [id |-> t]

Literal == [value |-> "x"]

\* expandedNode[propIri] of a node without that property
NotAnArray == <<[undefined |-> TRUE]>>

ExpandedNode(id, vals) == [id |-> id, vals |-> vals]

\* expandedNodes.find((n) => n["@id"] === entity["@id"]) || {}: the first node
\* of the identifier, or an object without any property
FindNode(expandedNodes, id) ==
  IF \E i \in DOMAIN expandedNodes : expandedNodes[i].id = id
  THEN expandedNodes[CHOOSE i \in DOMAIN expandedNodes :
                       /\ expandedNodes[i].id = id
                       /\ \A j \in 1..(i - 1) : expandedNodes[j].id # id]
  ELSE [id |-> "undefined", vals |-> [iri \in {Iri(q) : q \in PropNames} |-> NotAnArray]]

\* what the probe jsonld.expand({"@context": context, [propName]: "x"}) of
\* line 313 does: it returns a node with the property's IRI, a node without
\* any property (the context does not define the name), or it throws
ProbeOutcomes == {"iri", "none", "throws"}

NoIri == <<"undefined">>

\* the error of a probe that nothing catches
Threw == <<"threw">>

\* expandProperty (310-322); the cache makes every probe of a name give what
\* the first gave, so the probes of a call are a function of the name
expandProperty(probe, propName) ==
  IF probe[propName] = "iri" THEN Iri(propName) ELSE NoIri

RECURSIVE ValueIris(_)
\* .map(v => v && typeof v === "object" ? v["@id"] : null).filter(string) (336-337)
ValueIris(values) ==
  IF values = <<>> THEN <<>>
  ELSE (IF "id" \in DOMAIN Head(values) THEN <<Head(values).id>> ELSE <<>>)
       \o ValueIris(Tail(values))

\* the entry of one property (331-340)
HintEntry(expandedNode, propIri) ==
  [propIri |-> propIri,
   valueIris |-> IF propIri # NoIri /\ propIri # Threw
                    /\ expandedNode.vals[propIri] # NotAnArray
                 THEN ValueIris(expandedNode.vals[propIri]) ELSE <<>>]

ToSet(seq) == {seq[k] : k \in DOMAIN seq}

\* Object.fromEntries(entries) of one entity (327-343)
EntityHints(entity, expandedNodes, probe) ==
  [propName \in ToSet(entity.props) |->
     HintEntry(FindNode(expandedNodes, entity.id), expandProperty(probe, propName))]

RECURSIVE HintsLoop(_, _, _, _)
\* the loop over json["@graph"] (326-344): hints[entity["@id"]] is assigned,
\* a later entity of the same identifier replaces the earlier one
HintsLoop(graph, expandedNodes, probe, hints) ==
  IF graph = <<>> THEN hints
  ELSE HintsLoop(Tail(graph), expandedNodes, probe,
                 [id \in DOMAIN hints \cup {Head(graph).id} |->
                    IF id = Head(graph).id
                    THEN EntityHints(Head(graph), expandedNodes, probe)
                    ELSE hints[id]])

\* buildLinkedDataHints (304-347) with the probes of its call: the hints it
\* returns, or that it throws; {} without a context; an error that expandProperty lets escape rejects Promise.all (330)
\* and with it the call
LinkedDataHints(json, expandedNodes, probe) ==
  IF ~json.ctx THEN [threw |-> FALSE, hints |-> <<>>]
  ELSE IF \E i \in DOMAIN json.graph : \E k \in DOMAIN json.graph[i].props :
             expandProperty(probe, json.graph[i].props[k]) = Threw
       THEN [threw |-> TRUE, hints |-> <<>>]
  ELSE [threw |-> FALSE, hints |-> HintsLoop(json.graph, expandedNodes, probe, <<>>)]

\* the documents and expanded forms buildLinkedDataHints is called with
HintGraphs ==
  {<<>>,
   <<HintEntity("./", <<"name">>)>>,
   <<HintEntity("./", <<"name", "author">>)>>,
   <<HintEntity("./", <<"name", "author">>), HintEntity("a", <<"author">>)>>,
   <<HintEntity("./", <<>>), HintEntity("a", <<"author", "name">>)>>}

\* the expanded forms jsonld.expand(json) gives: no node, a node for "./", or
\* nodes for "./" and "a", each property without values, with a reference,
\* or with a literal and two references
ExpandedForms ==
  LET NodeValues == [{Iri(q) : q \in PropNames} ->
                       {NotAnArray, <<Ref("t")>>, <<Literal, Ref("t"), Ref("u")>>}]
  IN {<<>>} \cup {<<ExpandedNode("./", v)>> : v \in NodeValues}
            \cup {<<ExpandedNode("./", v), ExpandedNode("a", w)>> :
                    v \in NodeValues, w \in NodeValues}

\* processCrateData is about to call buildLinkedDataHints(json, expanded)
\* (464-472): crate stands for json, expandedCrate is expanded (469)
InitHints ==
  /\ \E c \in BOOLEAN : \E g \in HintGraphs :
        crate = [id |-> "hints", ctx |-> c, graph |-> g]
  /\ expandedCrate \in ExpandedForms
  /\ currentUrl = InitState.currentUrl
  /\ currentCrateName = InitState.currentCrateName
  /\ historyStack = InitState.historyStack
  /\ allEntities = InitState.allEntities
  /\ linkedDataHints = InitState.linkedDataHints
  /\ selectedEntityId = InitState.selectedEntityId
  /\ crateCache = InitState.crateCache
  /\ rootCrateUrl = InitState.rootCrateUrl
  /\ isLoading = InitState.isLoading
  /\ baseUrl = InitState.baseUrl
  /\ errorMsg = InitState.errorMsg
  /\ indexData = InitState.indexData
  /\ fuseInstance = InitState.fuseInstance
  /\ tasks = <<>>
  /\ ev = Event("init", "ok", NoUrl, FALSE)
  /\ mon = Idle
  /\ isStateless = TRUE

\* hints = await buildLinkedDataHints(json, expanded) (472)
CallBuildLinkedDataHints ==
  /\ tasks = <<>>
  /\ \E probe \in [PropNames -> ProbeOutcomes] :
        ServiceDo(Cur, "buildLinkedDataHints",
                  LinkedDataHints(crate, expandedCrate, probe), probe)

SpecHints == InitHints /\ [][CallBuildLinkedDataHints]_vars

\* ------------------------------------------- searchService.ts: flattenValue
\* JSON values, and the object graphs flattenValue can be handed: a store
\* maps pointers to values, the items of an array and the values of an
\* object's entries are pointers, so a value can contain itself.  A string is
\* the sequence of its words and separators.
SP == " "

NullValue == [t |-> "null"]

StringValue(s) == [t |-> "string", v |-> s]

\* String(value) of a number and of a boolean
NumberValue == [t |-> "number", v |-> <<"1">>]

BooleanValue == [t |-> "boolean", v |-> <<"true">>]

ArrayValue(items) == [t |-> "array", items |-> items]

\* Object.entries(value): the pairs of a key and the pointer to its value
ObjectValue(entries) == [t |-> "object", entries |-> entries]

MAX_DEPTH == 10

CONTEXT_KEY == "@context"

RECURSIVE Join(_)
\* parts.join(' ')
Join(parts) ==
  IF parts = <<>> THEN <<>>
  ELSE IF Len(parts) = 1 THEN parts[1]
  ELSE parts[1] \o <<SP>> \o Join(Tail(parts))

\* .filter(s => s.length > 0) of line 80
NonEmptyParts(parts) == SelectSeq(parts, LAMBDA part : part # <<>>)

RECURSIVE flattenValue(_, _, _, _)
RECURSIVE flattenValueTwoDeeper(_, _, _, _)
RECURSIVE ObjectParts(_, _, _, _)

\* the loop of lines 87-97 over the entries of an object: the key, and the
\* flattened value when it is not empty, of every entry whose key is neither
\* empty nor "@context"
ObjectParts(store, entries, depth, maxDepth) ==
  IF entries = <<>> THEN <<>>
  ELSE LET key == Head(entries)[1]
           flattenedVal == flattenValue(store, Head(entries)[2], depth + 1, maxDepth)
       IN (IF key # "" /\ key # CONTEXT_KEY
           THEN <<<<key>>>> \o (IF flattenedVal # <<>> THEN <<flattenedVal>> ELSE <<>>)
           ELSE <<>>)
          \o ObjectParts(store, Tail(entries), depth, maxDepth)

\* flattenValue with its depth test two levels further down
flattenValueTwoDeeper(store, ptr, depth, maxDepth) ==
  LET value == store[ptr]
  IN IF depth > maxDepth + 2 THEN <<>>
     ELSE IF value.t = "null" THEN <<>>
     ELSE IF value.t \in {"string", "number", "boolean"} THEN value.v
     ELSE IF value.t = "array"
          THEN Join(NonEmptyParts(
                 [k \in DOMAIN value.items |->
                    flattenValue(store, value.items[k], depth + 1, maxDepth)]))
     ELSE Join(ObjectParts(store, value.entries, depth, maxDepth))

\* flattenValue (56-102) of the value at ptr
flattenValue(store, ptr, depth, maxDepth) ==
  LET value == store[ptr]
  IN IF depth > maxDepth THEN <<>>
     ELSE IF value.t = "null" THEN <<>>
     ELSE IF value.t \in {"string", "number", "boolean"} THEN value.v
     ELSE IF value.t = "array"
          THEN Join(NonEmptyParts(
                 [k \in DOMAIN value.items |->
                    flattenValue(store, value.items[k], depth + 1, maxDepth)]))
     ELSE Join(ObjectParts(store, value.entries, depth, maxDepth))

MaxChain == 13

\* the key of the object at level i of a chain
ChainKey == [i \in 1..MaxChain |->
               CASE i = 1 -> "l1" [] i = 2 -> "l2" [] i = 3 -> "l3" [] i = 4 -> "l4"
                 [] i = 5 -> "l5" [] i = 6 -> "l6" [] i = 7 -> "l7" [] i = 8 -> "l8"
                 [] i = 9 -> "l9" [] i = 10 -> "l10" [] i = 11 -> "l11"
                 [] i = 12 -> "l12" [] i = 13 -> "l13"]

\* n objects (or arrays) inside one another around a leaf
Chain(n, asArray, leaf) ==
  [i \in 1..(n + 1) |->
     IF i = n + 1 THEN leaf
     ELSE IF asArray THEN ArrayValue(<<i + 1>>)
     ELSE ObjectValue(<<<<ChainKey[i], i + 1>>>>)]

\* the stores flattenValue is given.  Those of three values: 3 is a value
\* without parts, 2 and 1 are arrays and objects, some of which contain
\* themselves or each other.  And the chains of 9 to 13 levels.
ValueStores ==
  LET Leaves == {NullValue, StringValue(<<>>), StringValue(<<"a", SP, "b">>),
                 StringValue(<<SP, "a", SP, SP, "b">>),
                 NumberValue, BooleanValue, ArrayValue(<<>>), ObjectValue(<<>>)}
      SmallStores ==
        {<<v1, v2, v3>> :
           v1 \in {ArrayValue(<<2>>), ArrayValue(<<3, 2, 3>>),
                   ObjectValue(<<<<"k1", 2>>>>),
                   ObjectValue(<<<<"k1", 1>>, <<"n", 3>>>>),
                   ObjectValue(<<<<CONTEXT_KEY, 2>>, <<"n", 3>>>>)},
           v2 \in {ArrayValue(<<3>>), ArrayValue(<<3, 3>>), ArrayValue(<<1>>),
                   ArrayValue(<<2, 3>>),
                   ObjectValue(<<<<"k", 3>>>>),
                   ObjectValue(<<<<"", 3>>, <<CONTEXT_KEY, 3>>, <<"m", 3>>>>),
                   ObjectValue(<<<<"k2", 2>>>>)},
           v3 \in Leaves}
      ChainStores ==
        {Chain(n, asArray, leaf) : n \in 9..MaxChain, asArray \in BOOLEAN,
                                   leaf \in {StringValue(<<"deep">>), NumberValue}}
  IN SmallStores \cup ChainStores

\* an entity whose property has the value at pointer 1 of the store is
\* about to be indexed (extractSearchableContent, line 124)
InitFlatten ==
  /\ \E store \in ValueStores :
        allEntities = <<[id |-> "e", name |-> NULL, desc |-> FALSE, store |-> store]>>
  /\ crate = InitState.crate
  /\ currentUrl = InitState.currentUrl
  /\ currentCrateName = InitState.currentCrateName
  /\ historyStack = InitState.historyStack
  /\ expandedCrate = InitState.expandedCrate
  /\ linkedDataHints = InitState.linkedDataHints
  /\ selectedEntityId = InitState.selectedEntityId
  /\ crateCache = InitState.crateCache
  /\ rootCrateUrl = InitState.rootCrateUrl
  /\ isLoading = InitState.isLoading
  /\ baseUrl = InitState.baseUrl
  /\ errorMsg = InitState.errorMsg
  /\ indexData = InitState.indexData
  /\ fuseInstance = InitState.fuseInstance
  /\ tasks = <<>>
  /\ ev = Event("init", "ok", NoUrl, FALSE)
  /\ mon = Idle
  /\ isStateless = TRUE

\* flattenValue(value), with the defaults depth = 0 and maxDepth = 10, of the
\* value at any pointer of the store
CallFlattenValue ==
  /\ tasks = <<>>
  /\ \E ptr \in DOMAIN allEntities[1].store :
        ServiceDo(Cur, "flattenValue",
                  flattenValue(allEntities[1].store, ptr, 0, MAX_DEPTH), ptr)

\* .replace(/\s+/g, ' ').trim() of line 131: every run of separators
\* becomes one and those at the two ends go, which leaves the words of the
\* string with one separator between two of them
NormalizeWhitespace(s) ==
  LET words == SelectSeq(s, LAMBDA w : w # SP)
  IN [i \in 1..(2 * Len(words) - 1) |->
        IF i % 2 = 1 THEN words[(i + 1) \div 2] ELSE SP]

\* the loop of lines 114-128 over the entries of an entity: every key but
\* "@context", the empty one too, and the flattened value when it is not empty
RECURSIVE EntityParts(_, _)
EntityParts(store, entries) ==
  IF entries = <<>> THEN <<>>
  ELSE LET key == Head(entries)[1]
           flattenedValue == flattenValue(store, Head(entries)[2], 0, MAX_DEPTH)
       IN (IF key = CONTEXT_KEY THEN <<>>
           ELSE <<IF key = "" THEN <<>> ELSE <<key>>>>
                \o (IF flattenedValue # <<>> THEN <<flattenedValue>> ELSE <<>>))
          \o EntityParts(store, Tail(entries))

\* extractSearchableContent (111-132) of an entity with the given entries,
\* in detail
SearchableContent(store, entries) ==
  NormalizeWhitespace(Join(EntityParts(store, entries)))

\* the entries of the entity indexed: keys and pointers to their values
EntityEntries ==
  {<<<<"name", 1>>>>,
   <<<<"", 1>>, <<CONTEXT_KEY, 2>>, <<"n", 3>>>>,
   <<<<"@id", 3>>, <<"", 3>>, <<"name", 2>>>>}

\* extractSearchableContent(entity) (line 152)
CallExtractSearchableContent ==
  /\ tasks = <<>>
  /\ \E entries \in EntityEntries :
        ServiceDo(Cur, "extractSearchableContent",
                  SearchableContent(allEntities[1].store, entries), entries)

SpecFlatten ==
  InitFlatten /\ [][CallFlattenValue \/ CallExtractSearchableContent]_vars

\* ------------------------------------------------------------------ claims
\* no call is suspended at an await
NoLoadInFlight == tasks = <<>>

\* the outcomes with which the processing of a document ends well: restored
\* from the cache, or processed with or without a successful expansion
Success == {"cached", "ok", "expandFailed"}

\* the handlers that end in loadFromUrl
UrlLoadOps == {"loadFromUrl", "goBack", "goToBreadcrumb"}

\* C1: whenever no load is in flight, historyStack is empty if and only if
\* currentUrl equals rootCrateUrl.
C1_StackEmptyIffAtRoot ==
  NoLoadInFlight => ((historyStack = <<>>) <=> (currentUrl = rootCrateUrl))

\* C2: when the processing of a document ends well and its locator is the
\* recorded root locator, historyStack is empty right afterwards, whichever
\* handler started the processing.
C2_RootEntryClearsStack ==
  (ev.res \in Success /\ ~Falsy(ev.loc) /\ ev.loc = rootCrateUrl) => historyStack = <<>>

\* C2, the case: handleSubcrateOpen has pushed an entry and then restored the
\* root crate from the cache.
C2_Witness ==
  /\ ev.op = "handleSubcrateOpen" /\ ev.res = "cached"
  /\ ev.loc = rootCrateUrl /\ historyStack = <<>>

\* C3: handleSubcrateOpen from a Ready state (nothing in flight, the stack
\* empty exactly at the root) followed at once by goBack, both ending well,
\* ends with the currentUrl and the length of historyStack that were there
\* before handleSubcrateOpen.
C3_OpenThenBackRestores ==
  (mon.phase = "done" /\ mon.ready) =>
     (currentUrl = mon.L /\ Len(historyStack) = mon.n)

\* C4: a step that ends a load with an error leaves allEntities (and so the
\* tree computed from it) and linkedDataHints as they were and sets errorMsg.
C4_FailureKeepsData ==
  [][ev'.res \in {"error", "threw"} =>
       (allEntities' = allEntities /\ linkedDataHints' = linkedDataHints
        /\ errorMsg' # NULL)]_vars

\* C5: when the fetch of handleSubcrateOpen has failed, historyStack has the
\* length, and currentUrl and baseUrl the values, they had before the call.
C5_FailedSubcrateFetchKeepsNav ==
  mon.phase = "fetchFailed" =>
     (Len(historyStack) = mon.n /\ currentUrl = mon.L /\ baseUrl = mon.base)

\* C6: whenever no load is in flight, currentUrl is null or a key of
\* crateCache.
C6_CurrentIsCached ==
  NoLoadInFlight => (currentUrl = NoUrl \/ currentUrl \in DOMAIN crateCache)

\* C7: loadFromUrl (also from goBack and goToBreadcrumb) and handleSubcrateOpen
\* on a locator that has a cache entry suspend at no fetch, leave isLoading
\* alone and make allEntities, linkedDataHints and currentCrateName those of
\* the entry.
C7_CachedOpenIsImmediate ==
  [][(ev'.op \in UrlLoadOps \cup {"handleSubcrateOpen"} /\ ev'.loc \in DOMAIN crateCache) =>
       (/\ Len(tasks') = Len(tasks)
        /\ isLoading' = isLoading
        /\ allEntities' = crateCache[ev'.loc].entities
        /\ linkedDataHints' = crateCache[ev'.loc].linkedDataHints
        /\ currentCrateName' = crateCache[ev'.loc].crateName)]_vars

\* C8: a step other than resetApp keeps every entry of crateCache as it is,
\* and adds an entry only as the end of a processing that went well, under
\* the non-null locator of that processing.
C8_CacheEntriesStable ==
  [][ev'.op # "resetApp" =>
       (/\ \A k \in DOMAIN crateCache :
               k \in DOMAIN crateCache' /\ crateCache'[k] = crateCache[k]
        /\ \A k \in DOMAIN crateCache' \ DOMAIN crateCache :
               ev'.op = "processed" /\ ev'.res \in Success /\ ev'.loc = k /\ ~Falsy(k))]_vars

\* the state part of C9: right after resetApp the cache, the stack, the
\* entities and the hints are empty, the root and the current locator are
\* null and localSearch finds nothing
C9_ResetState ==
  ev.op = "resetApp" =>
     (/\ crateCache = <<>> /\ historyStack = <<>>
      /\ rootCrateUrl = NoUrl /\ currentUrl = NoUrl
      /\ allEntities = <<>> /\ linkedDataHints = {}
      /\ \A q \in Queries : localSearch(Cur, q, SEARCH_LIMIT) = <<>>)

\* C9: right after resetApp everything is empty (C9_ResetState), and the
\* first URL load the user starts after it is started as a first crate.
C9_ResetStartsNewSession ==
  /\ []C9_ResetState
  /\ [][(mon.phase = "reset" /\ ev'.op \in UrlLoadOps /\ ev'.res = "loading") =>
          Last(tasks').isFirstCrate]_vars

\* C10: a step of a call that a later navigation or resetApp has superseded
\* writes neither crateCache nor allEntities, currentUrl, currentCrateName or
\* historyStack.
C10_StaleCompletionIsIgnored ==
  [][ev'.stale =>
       (/\ crateCache' = crateCache
        /\ allEntities' = allEntities
        /\ currentUrl' = currentUrl
        /\ currentCrateName' = currentCrateName
        /\ historyStack' = historyStack)]_vars

\* the calls that open a package from a URL, in their fetch or in the
\* processing that follows it: loadFromUrl and handleSubcrateOpen
IsOpenPackage(t) ==
  t.sourceName \in {"Remote Crate", "Remote Crate (Indexed)", "Subcrate"}

OpenInFlight == {i \in DOMAIN tasks : IsOpenPackage(tasks[i])}

\* C11: at most one fetch-and-process of loadFromUrl or handleSubcrateOpen is
\* in flight in any reachable state.
C11_OneLoadInFlight == Cardinality(OpenInFlight) <= 1

\* the first half of C12: a recorded root locator is the locator of a load
\* that has succeeded, that is, of a crate that has its cache entry
C12_RootWasLoaded ==
  (NoLoadInFlight /\ rootCrateUrl # NoUrl) => rootCrateUrl \in DOMAIN crateCache

\* the second half of C12: no step other than resetApp changes a recorded
\* root locator
C12_RootKept ==
  [][(ev'.op # "resetApp" /\ rootCrateUrl # NoUrl) => rootCrateUrl' = rootCrateUrl]_vars

\* C12: rootCrateUrl is set by the first successful load of a session and
\* keeps its value until resetApp.
C12_RootFixedUntilReset == []C12_RootWasLoaded /\ C12_RootKept

\* C13: when a handleSubcrateOpen called in a Ready state with display name N,
\* locator L and stack S has ended well at a locator other than the root,
\* historyStack is S followed by the one entry (N, L).
C13_OpenPushesCurrent ==
  (mon.phase = "opened" /\ mon.ready /\ ev.loc # rootCrateUrl) =>
     historyStack = Append(mon.S, [name |-> mon.N, url |-> mon.L])

\* the stack that goToBreadcrumb or goBack leaves when it took the entry at
\* index i: the entries before i, and no entry once the processing of a cached
\* root has run to its end within the call
CutAt(i) == SubSeq(historyStack, 1, i - 1)

\* the first half of C14: a goToBreadcrumb that returns at once leaves the
\* state and the calls in flight as they are; any other one took an entry i of
\* the stack, asked for its locator and, when it has suspended at the fetch,
\* has left the entries before i as the stack
C14_CutBeforeLoad ==
  [][ev'.op = "goToBreadcrumb" =>
       IF ev'.res = "noop" THEN UNCHANGED <<appVars, tasks>>
       ELSE \E i \in DOMAIN historyStack :
              /\ ev'.loc = historyStack[i].url
              /\ historyStack' = IF ev'.res = "cached" /\ ev'.loc = rootCrateUrl'
                                 THEN <<>> ELSE CutAt(i)
              /\ ev'.res = "loading" => Len(tasks') = Len(tasks) + 1]_vars

\* the second half of C14: when the load goToBreadcrumb started has ended
\* well, the locator of the entry it took is the current locator
C14_SuccessAtTarget ==
  (mon.phase = "navDone" /\ mon.via = "goToBreadcrumb") => currentUrl = mon.T

\* C14: goToBreadcrumb(i) with i inside the stack cuts the stack to the
\* entries before entry i before the load starts and, when the load succeeds,
\* makes the locator of entry i the current locator; with i outside the stack
\* it changes no state and issues no fetch.
C14_BreadcrumbCutsAndLoads == []C14_SuccessAtTarget /\ C14_CutBeforeLoad

\* a goToBreadcrumb that had to fetch its target has ended well
C14_Witness ==
  /\ mon.phase = "navDone" /\ mon.via = "goToBreadcrumb"
  /\ ev.op # "goToBreadcrumb" /\ ev.res \in Success
  /\ currentUrl = mon.T

\* the first half of C15: goBack on an empty stack leaves the state and the
\* calls in flight as they are; on a non-empty stack it removes the last entry
\* and no other, asks for that entry's locator, and ends in the state in which
\* goToBreadcrumb on the last index ends
C15_PopsLastEntry ==
  [][ev'.op = "goBack" =>
       IF historyStack = <<>>
       THEN ev'.res = "noop" /\ UNCHANGED <<appVars, tasks>>
       ELSE LET last == Len(historyStack)
                r == goToBreadcrumb(Cur, tasks, last)
            IN /\ ev'.res # "noop"
               /\ ev'.loc = historyStack[last].url
               /\ historyStack' = IF ev'.res = "cached" /\ ev'.loc = rootCrateUrl'
                                  THEN <<>> ELSE CutAt(last)
               /\ ev'.res = "loading" => Len(tasks') = Len(tasks) + 1
               /\ Cur' = r.st /\ tasks' = r.tasks /\ ev'.res = r.res]_vars

\* the second half of C15: when the load goBack started has ended well, the
\* locator of the entry it removed is the current locator
C15_SuccessAtParent ==
  (mon.phase \in {"navDone", "done"} /\ mon.via = "goBack") => currentUrl = mon.T

\* C15: goBack on an empty stack changes no state and issues no fetch; on a
\* non-empty stack it removes exactly the last entry and, when the load
\* succeeds, makes that entry's locator the current locator, as
\* goToBreadcrumb on the last index does.
C15_BackIsLastBreadcrumb == []C15_SuccessAtParent /\ C15_PopsLastEntry

\* a goBack from a stack of two entries that had to fetch its target has
\* ended well
C15_Witness ==
  /\ mon.phase \in {"navDone", "done"} /\ mon.via = "goBack"
  /\ ev.op # "goBack" /\ ev.res \in Success
  /\ currentUrl = mon.T

\* the first half of C16: the document whose entities are shown has passed
\* validateRoCrateJson, and so has every document with an entry in the index
C16_ActiveIsValid ==
  /\ allEntities # <<>> => validateRoCrateJson(crate)
  /\ indexData # <<>> => validateRoCrateJson(crate)

\* the second half of C16: a step in which a fetched document fails (or the
\* fetch does) leaves the document shown, its locator and the index as they
\* were
C16_FailureKeepsState ==
  [][(ev'.op \in {"loadFetch", "subcrateFetch"} /\ ev'.res = "error") =>
       UNCHANGED <<allEntities, crate, currentUrl, indexData, crateCache>>]_vars

\* C16: a document from any source becomes the active document and is indexed
\* only after it has passed validateRoCrateJson; a document that fails it
\* aborts the load and the state before is kept.
C16_OnlyValidatedBecomesActive == []C16_ActiveIsValid /\ C16_FailureKeepsState

\* the number of entities of a document whose identifier is "./" or "."
RootCount(d) == Cardinality({i \in DOMAIN d.graph : IsRootId(d.graph[i].id)})

\* C17: validateRoCrateJson accepts a document if and only if it has a
\* context, a non-empty @graph and exactly one entity whose identifier is
\* "./" or "."; every other input is rejected.
C17_AcceptsExactlyOneRoot ==
  ev.op = "validateRoCrateJson" =>
     ((ev.res = "ok") <=>
        (ev.arg.ctx /\ ev.arg.graph # <<>> /\ RootCount(ev.arg) = 1))

\* the entries of an index stored under one crateId, and the crateIds of an index
EntriesUnder(data, c) == SelectSeq(data, LAMBDA item : item.crateId = c)

CrateIdsIn(data) == {data[i].crateId : i \in DOMAIN data}

\* the crateId under which processCrateData indexes the document of a locator
CrateIdOf(loc) == IF Falsy(loc) THEN PRIMARY ELSE loc

\* C18: in every step of the application other than resetApp the entries
\* stored under a crateId stay as they are, except under the crateId of the
\* document the step has indexed, where they become exactly the entries derived from
\* that document's entity list.
C18_ReplacePerCrateId ==
  [][ev'.op # "resetApp" =>
       \A c \in CrateIdsIn(indexData) \cup CrateIdsIn(indexData') :
          \/ EntriesUnder(indexData', c) = EntriesUnder(indexData, c)
          \/ /\ c = CrateIdOf(ev'.loc)
             /\ EntriesUnder(indexData', c) = IndexItems(allEntities', c)]_vars

C20_OtherCratesKept ==
  [][(ev'.op = "addToIndex" /\ fuseInstance.built) =>
       \A c \in (CrateIdsIn(indexData) \cup CrateIdsIn(indexData')) \ {ev'.arg.crateId} :
          EntriesUnder(indexData', c) = EntriesUnder(indexData, c)]_vars

\* the second half of C20: no two entries of indexData have the same
\* entityId and the same crateId
C20_PairsUnique ==
  \A i, j \in DOMAIN indexData :
     (indexData[i].entityId = indexData[j].entityId
      /\ indexData[i].crateId = indexData[j].crateId) => i = j

\* C20: entities with the same identifier under different crateIds are
\* separate entries that do not overwrite each other, and after any sequence
\* of index operations indexData holds no two entries with the same
\* (entityId, crateId) pair.
C20_CompositeKey == []C20_PairsUnique /\ C20_OtherCratesKept

TreeOfRooted == ev.op = "fileTree" /\ FindRoot(allEntities) # Undefined

RECURSIVE NoIdTwiceOnPath(_, _)
\* no node below (and including) node has an identifier of seen or of a node above it
NoIdTwiceOnPath(node, seen) ==
  /\ node.id \notin seen
  /\ \A k \in DOMAIN node.children :
        NoIdTwiceOnPath(node.children[k], seen \cup {node.id})

RECURSIVE RepeatsOnlyAsLink(_, _)
\* a node whose identifier is in seen or on a node above it is a Link node
\* without children
RepeatsOnlyAsLink(node, seen) ==
  IF node.id \in seen THEN node.type = "Link" /\ node.children = <<>>
  ELSE \A k \in DOMAIN node.children :
          RepeatsOnlyAsLink(node.children[k], seen \cup {node.id})

\* C22 as stated: for every document with a root entity the root node's id
\* is the root entity's @id, and on every path from the root node to a leaf
\* no identifier occurs on two nodes.
C22_NoIdTwice ==
  TreeOfRooted =>
     (ev.res.id = FindRoot(allEntities).id /\ NoIdTwiceOnPath(ev.res, {}))

\* C22 amended: for every document with a root entity the root node's id is
\* the root entity's @id, and on every path from the root node to a leaf an
\* identifier occurs a second time only on the leaf, which then is a Link
\* node without children.
C22_RepeatEndsPath ==
  TreeOfRooted =>
     (ev.res.id = FindRoot(allEntities).id /\ RepeatsOnlyAsLink(ev.res, {}))

\* the tree of a loop through two entities below the root
C22_Witness ==
  /\ TreeOfRooted
  /\ \E k \in DOMAIN ev.res.children :
       \E l \in DOMAIN ev.res.children[k].children :
          \E m \in DOMAIN ev.res.children[k].children[l].children :
             /\ ev.res.children[k].children[l].children[m].id = ev.res.children[k].id
             /\ ev.res.children[k].children[l].children[m].type = "Link"

\* how often an identifier is listed in a hasPart list, and how often it is
\* the id of a node of a list of nodes
CountIn(seq, x) == Cardinality({k \in DOMAIN seq : seq[k] = x})

CountNodes(nodes, x) == Cardinality({k \in DOMAIN nodes : nodes[k].id = x})

\* the root entity is "./", it lists parts, and every part it lists is a File
\* entity without parts of its own
RootOfFilesOnly ==
  LET root == MapGet(allEntities, "./")
  IN /\ ev.op = "fileTree"
     /\ root # Undefined /\ FindRoot(allEntities) = root
     /\ root.hasPart # <<>>
     /\ \A k \in DOMAIN root.hasPart :
           LET part == MapGet(allEntities, root.hasPart[k])
           IN part # Undefined /\ part.type = "File" /\ part.hasPart = <<>>

\* C23: for a document whose root entity "./" lists only File entities in
\* hasPart, the tree is a root node with id "./" and kind Dataset whose
\* children are exactly one File node per listed entity, each without
\* children.
C23_RootDatasetWithFiles ==
  RootOfFilesOnly =>
     LET root == MapGet(allEntities, "./")
     IN /\ ev.res.id = "./" /\ ev.res.type = "Dataset"
        /\ Len(ev.res.children) = Len(root.hasPart)
        /\ \A k \in DOMAIN ev.res.children :
              /\ ev.res.children[k].type = "File"
              /\ ev.res.children[k].children = <<>>
              /\ CountNodes(ev.res.children, ev.res.children[k].id)
                   = CountIn(root.hasPart, ev.res.children[k].id)

\* the kinds a tree node may have; the broken-link kind is written "Broken Link"
NodeKinds == {"Dataset", "File", "Link", BROKEN_LINK}

RECURSIVE KindsOf(_)
\* the kinds of the nodes of a tree
KindsOf(node) ==
  {node.type} \cup UNION {KindsOf(node.children[k]) : k \in DOMAIN node.children}

\* C24: every node of every tree built from an entity set has its kind in
\* {Dataset, File, Link, BrokenLink}, whatever @type the entities reached
\* through hasPart carry.
C24_KindsAreFour == ev.op = "fileTree" => KindsOf(ev.res) \subseteq NodeKinds

\* the identifier a part of hasPart lists: the string itself or the "@id" of
\* the reference; NonString when the part lists none
ListedId(part) == IF part = EmptyIdRef THEN "" ELSE part

\* the hasPart list of the entity of a node
ListedParts(node) ==
  LET entity == MapGet(allEntities, node.id)
  IN IF entity = Undefined THEN <<>> ELSE entity.hasPart

\* how many parts of a list list the identifier x
CountListed(parts, x) == Cardinality({k \in DOMAIN parts : ListedId(parts[k]) = x})

\* the children of node are one per string identifier of its entity's
\* hasPart, and those whose identifier names no entity are broken links
\* without children
ChildPerListedId(node) ==
  LET parts == ListedParts(node)
      ids == {ListedId(parts[k]) : k \in DOMAIN parts} \ {NonString}
  IN /\ \A k \in DOMAIN node.children : node.children[k].id \in ids
     /\ \A x \in ids :
           /\ CountNodes(node.children, x) = CountListed(parts, x)
           /\ MapGet(allEntities, x) = Undefined =>
                 \A k \in DOMAIN node.children :
                    node.children[k].id = x =>
                       (node.children[k].type = BROKEN_LINK
                        /\ node.children[k].children = <<>>)

RECURSIVE EveryNode(_, _)
\* P holds of node and of every node below it
EveryNode(P(_), node) ==
  P(node) /\ \A k \in DOMAIN node.children : EveryNode(P, node.children[k])

\* a node the walk has expanded: any node but the Link that ends a loop
Expanded(node) == node.type # "Link"

\* C25: every node of the tree that the walk has expanded has exactly one
\* child per string identifier listed in its entity's hasPart, none is
\* dropped; the child of an identifier that names no entity has that id, the
\* broken-link kind and no children.
C25_OneChildPerPart ==
  TreeOfRooted =>
     EveryNode(LAMBDA node : Expanded(node) => ChildPerListedId(node), ev.res)

\* how many parts of a list reduce to the string x
CountParts(parts, x) == Cardinality({k \in DOMAIN parts : PartId(parts[k]) = x})

RECURSIVE CutOnlyOnPath(_, _)
\* below (and including) node, a node whose identifier is in seen or on a
\* node above it is a Link without children, and every other node is
\* expanded: it is no Link and has one child per part of its entity
CutOnlyOnPath(node, seen) ==
  IF node.id \in seen THEN node.type = "Link" /\ node.children = <<>>
  ELSE LET parts == ListedParts(node)
       IN /\ node.type # "Link"
          /\ \A k \in DOMAIN node.children :
                /\ CountNodes(node.children, node.children[k].id)
                     = CountParts(parts, node.children[k].id)
                /\ CutOnlyOnPath(node.children[k], seen \cup {node.id})
          /\ \A k \in DOMAIN parts :
                PartId(parts[k]) # NonString =>
                   CountNodes(node.children, PartId(parts[k])) > 0

\* C26: an entity referenced from two branches that are not ancestors of one
\* another is expanded with its subtree under both; a node is cut off as a
\* Link exactly when its identifier is on the path from the root to it.
C26_CutOnlyOnOwnPath ==
  TreeOfRooted => CutOnlyOnPath(ev.res, {})

\* the entity "c" is a part of "a" and of "b", two parts of the root, and
\* has its child under both
C26_Witness ==
  /\ TreeOfRooted
  /\ \E i, j \in DOMAIN ev.res.children :
        /\ ev.res.children[i].id = "a" /\ ev.res.children[j].id = "b"
        /\ \E m \in DOMAIN ev.res.children[i].children :
           \E n \in DOMAIN ev.res.children[j].children :
              /\ ev.res.children[i].children[m].id = "c"
              /\ ev.res.children[j].children[n] = ev.res.children[i].children[m]
              /\ ev.res.children[i].children[m].type # "Link"
              /\ ev.res.children[i].children[m].children # <<>>

\* the entry buildLinkedDataHints has recorded for a property of an entity
HasHint(i, propName) ==
  /\ crate.graph[i].id \in DOMAIN ev.res.hints
  /\ propName \in DOMAIN ev.res.hints[crate.graph[i].id]

\* C27: buildLinkedDataHints does not throw; for a document without context
\* and for a property whose probe fails it records the hint of the (entity,
\* property) pair with an empty target set, and for every other property of a
\* document with context the hint with the property's IRI and the
\* identifiers the expanded node gives it.
C27_FailedProbeGivesEmptyHint ==
  ev.op = "buildLinkedDataHints" =>
     /\ ~ev.res.threw
     /\ \A i \in DOMAIN crate.graph : \A k \in DOMAIN crate.graph[i].props :
           LET entity == crate.graph[i]
               propName == entity.props[k]
           IN /\ HasHint(i, propName)
              /\ (~crate.ctx \/ ev.arg[propName] = "throws") =>
                    ev.res.hints[entity.id][propName].valueIris = <<>>
              /\ (crate.ctx /\ ev.arg[propName] = "iri") =>
                    ev.res.hints[entity.id][propName] =
                       HintEntry(FindNode(expandedCrate, entity.id), Iri(propName))

\* the step in which the processCrateData call tasks[i] ends after its
\* jsonld.expand has thrown
ExpandFailedAt(i) ==
  /\ ev'.op = "processed" /\ ev'.res = "expandFailed"
  /\ tasks[i].pc = "expand" /\ tasks' = RemoveAt(tasks, i)
  /\ ev'.loc = tasks[i].sourceUrl

\* C28: the step that ends a processCrateData whose expansion has failed
\* makes the document's entities the active ones, leaves the link hints
\* empty, has the breadcrumbs updated for the document's locator and, when
\* the document has a locator, caches it under the locator with the
\* entities, the expanded form and the hints that are active.
C28_ExpansionFailureCompletes ==
  [][(ev'.op = "processed" /\ ev'.res = "expandFailed") =>
       \E i \in DOMAIN tasks :
          /\ ExpandFailedAt(i)
          /\ allEntities' = tasks[i].json.graph
          /\ linkedDataHints' = {}
          /\ errorMsg' = errorMsg
          /\ historyStack' = updateBreadcrumbsForCrate(Cur, tasks[i].sourceUrl).historyStack
          /\ ~Falsy(tasks[i].sourceUrl) =>
                /\ tasks[i].sourceUrl \in DOMAIN crateCache'
                /\ crateCache'[tasks[i].sourceUrl].json = tasks[i].json
                /\ crateCache'[tasks[i].sourceUrl].entities = allEntities'
                /\ crateCache'[tasks[i].sourceUrl].expandedCrate = expandedCrate'
                /\ crateCache'[tasks[i].sourceUrl].linkedDataHints = linkedDataHints']_vars

RECURSIVE WordsWithin(_, _, _)
\* the words of the strings, numbers, booleans and indexed keys that are at
\* most n levels below (or at) the value at ptr
WordsWithin(store, ptr, n) ==
  LET value == store[ptr]
  IN IF value.t = "null" THEN {}
     ELSE IF value.t \in {"string", "number", "boolean"} THEN ToSet(value.v) \ {SP}
     ELSE IF value.t = "array"
          THEN IF n = 0 THEN {}
               ELSE UNION {WordsWithin(store, value.items[k], n - 1) :
                             k \in DOMAIN value.items}
     ELSE LET kept == {k \in DOMAIN value.entries :
                         value.entries[k][1] \notin {"", CONTEXT_KEY}}
          IN {value.entries[k][1] : k \in kept}
             \cup (IF n = 0 THEN {}
                   ELSE UNION {WordsWithin(store, value.entries[k][2], n - 1) :
                                 k \in kept})

\* a string as Join makes it: no separator at either end, no two in a row
WellJoined(s) ==
  /\ s # <<>> => (s[1] # SP /\ s[Len(s)] # SP)
  /\ \A k \in 1..(Len(s) - 1) : ~(s[k] = SP /\ s[k + 1] = SP)

C29_WitnessCyclic ==
  /\ ev.op = "flattenValue" /\ ev.arg = 1
  /\ allEntities[1].store[1] = ObjectValue(<<<<"k1", 1>>, <<"n", 3>>>>)
  /\ allEntities[1].store[3] = NumberValue
  /\ Len(SelectSeq(ev.res, LAMBDA w : w = "k1")) = MAX_DEPTH + 1

RECURSIVE Depth(_)
\* the number of nodes on the longest path from node down to a leaf
Depth(node) ==
  IF node.children = <<>> THEN 1
  ELSE LET below == {Depth(node.children[k]) : k \in DOMAIN node.children}
       IN 1 + CHOOSE d \in below : \A e \in below : e <= d

\* the identifiers of an entity set: those of its entities and of their parts
IdsOf(entities) ==
  {entities[i].id : i \in DOMAIN entities}
  \cup UNION {{PartId(entities[i].hasPart[k]) : k \in DOMAIN entities[i].hasPart} :
                i \in DOMAIN entities}

\* the root entity lists itself, and nothing else, as its part
RootIsOwnPart ==
  /\ TreeOfRooted
  /\ FindRoot(allEntities).hasPart = <<FindRoot(allEntities).id>>

\* C30: buildTree ends for every entity set, whatever loops hasPart makes:
\* no path of the tree is longer than the number of identifiers plus one,
\* an identifier already on the path gives a Link node without children,
\* and a root entity x with hasPart [x] gives the root x with one child, a
\* Link with id x.
C30_LoopsAreCut ==
  TreeOfRooted =>
     /\ Depth(ev.res) <= Cardinality(IdsOf(allEntities)) + 1
     /\ RepeatsOnlyAsLink(ev.res, {})
     /\ RootIsOwnPart =>
           /\ ev.res.id = FindRoot(allEntities).id
           /\ Len(ev.res.children) = 1
           /\ ev.res.children[1].id = ev.res.id
           /\ ev.res.children[1].type = "Link"
           /\ ev.res.children[1].children = <<>>

\* the tree of a root entity that is its own part
C30_Witness ==
  /\ RootIsOwnPart
  /\ Len(ev.res.children) = 1 /\ ev.res.children[1].type = "Link"

\* the children of node: Datasets before all others, and nodes of one kind
\* in non-decreasing order of their names
SortedChildren(node) ==
  \A i, j \in DOMAIN node.children :
     i < j =>
        /\ ~(node.children[j].type = "Dataset" /\ node.children[i].type # "Dataset")
        /\ node.children[i].type = node.children[j].type =>
              NameKey(node.children[i]) <= NameKey(node.children[j])

\* C31: for every entity set, those with names that are no strings too, the
\* tree is built and in every node's child list the Datasets come before all
\* other children and the children of one kind are in non-decreasing order
\* of their display names.
C31_SiblingsSorted ==
  /\ ev.op # "fileTreeThrew"
  /\ ev.op = "fileTree" => EveryNode(SortedChildren, ev.res)

\* the identifiers of the object-valued items the expanded document lists
\* for the entity of an identifier under the IRI of a property
ListedTargets(id, propName) ==
  LET values == FindNode(expandedCrate, id).vals[Iri(propName)]
  IN IF values = NotAnArray THEN <<>> ELSE ValueIris(values)

\* C32: for every entity and every one of its properties other than @id and
\* @type the link hints hold an entry, and its target set is exactly the @id
\* values of the object-valued items that the expanded document lists for
\* the entity under the property's IRI.
C32_TargetsAreListedIds ==
  ev.op = "buildLinkedDataHints" =>
     \A i \in DOMAIN crate.graph : \A k \in DOMAIN crate.graph[i].props :
        LET entity == crate.graph[i]
            propName == entity.props[k]
        IN /\ HasHint(i, propName)
           /\ ev.res.hints[entity.id][propName].valueIris
                = ListedTargets(entity.id, propName)



\* the words of a string, in order
Words(s) == SelectSeq(s, LAMBDA w : w # SP)

RECURSIVE KeyThenValue(_, _, _)
\* for every entry whose key is not "@context": the key, then the words of
\* the flattened value, the value being one level further down
KeyThenValue(store, entries, depth) ==
  IF entries = <<>> THEN <<>>
  ELSE LET key == Head(entries)[1]
           flattenedVal == flattenValue(store, Head(entries)[2], depth + 1, MAX_DEPTH)
       IN (IF key = CONTEXT_KEY THEN <<>>
           ELSE (IF key = "" THEN <<>> ELSE <<key>>) \o Words(flattenedVal))
          \o KeyThenValue(store, Tail(entries), depth)

\* the rule of C33 for the value at ptr when it is flattened at a depth
EmitsKeysAndValues(store, ptr, depth) ==
  LET value == store[ptr]
      flat == flattenValue(store, ptr, depth, MAX_DEPTH)
  IN /\ value.t = "object" => Words(flat) = KeyThenValue(store, value.entries, depth)
     /\ value.t = "array" =>
          flat = Join(NonEmptyParts(
                   [k \in DOMAIN value.items |->
                      flattenValue(store, value.items[k], depth + 1, MAX_DEPTH)]))

\* C33: flattening an object emits, for every key other than "@context", the
\* key followed by the flattened value, at every level down to the bound;
\* flattening an array joins the flattened elements that are not empty with
\* a separator; the searchable content of an entity has no separator at
\* either end and no two in a row.
C33_KeysThenValues ==
  /\ ev.op = "flattenValue" =>
       \A depth \in 0..MAX_DEPTH :
          EmitsKeysAndValues(allEntities[1].store, ev.arg, depth)
  /\ ev.op = "extractSearchableContent" =>
       /\ WellJoined(ev.res)
       /\ Words(ev.res) = KeyThenValue(allEntities[1].store, ev.arg, 0 - 1)


\* what a reference names when its trailing slash and its trailing metadata
\* filename are left out, and the metadata filename it ends in
RefDir(ref) ==
  LET a == IF Last(ref.segs) = "" THEN Front(ref.segs) ELSE ref.segs
  IN IF a # <<>> /\ IsMetaName(Last(a)) THEN Front(a) ELSE a

RefFile(ref) == IF IsMetaName(Last(ref.segs)) THEN Last(ref.segs) ELSE META

\* the locator handleSubcrateOpen resolves a reference to, and the rest of
\* C34 for that reference: the locator ends with "/", is the key under which
\* the cache is read and written, and the fetch goes to the locator
\* followed by the filename of the reference
LocatorIsKey(ref) ==
  LET h == handleSubcrateOpen(Cur, tasks, ref)
  IN /\ EndsWithSlash(h.loc)
     /\ IF h.res = "loading"
        THEN LET t == Last(h.tasks)
             IN /\ ~CacheHas(Cur, h.loc)
                /\ t.sourceUrl = h.loc
                /\ t.fetchUrl = [h.loc EXCEPT !.segs = Append(Front(@), RefFile(ref))]
        ELSE /\ CacheHas(Cur, h.loc)
             /\ h.st.crate = crateCache[h.loc].json

\* C34: handleSubcrateOpen resolves references that differ only by a
\* trailing slash or by a trailing metadata filename to the same locator;
\* the locator ends with "/" and is the cache key, and the document is
\* fetched from the locator followed by the filename the reference ended in,
\* or by ro-crate-metadata.json when it ended in none.
C34_SameLocator ==
  (MainVisible /\ ~Falsy(baseUrl)) =>
     \A r1 \in MetaRefs :
        /\ LocatorIsKey(r1)
        /\ \A r2 \in MetaRefs :
              RefDir(r1) = RefDir(r2) =>
                 handleSubcrateOpen(Cur, tasks, r1).loc
                   = handleSubcrateOpen(Cur, tasks, r2).loc


\* the documents that can be at the place a reference names
NamedDocuments(ref) == RemoteDocs(SubcrateFetchUrl(SubcrateTarget(ref, baseUrl)))

\* C35: references that name different metadata documents of one directory
\* do not share a cache entry: whenever handleSubcrateOpen of a reference
\* ends with a package restored from the cache, the active document and its
\* entities are those of the document the reference names.
C35_OwnDocumentActive ==
  (MainVisible /\ ~Falsy(baseUrl)) =>
     \A ref \in MetaRefs :
        LET h == handleSubcrateOpen(Cur, tasks, ref)
        IN h.res = "cached" =>
              \E d \in NamedDocuments(ref) :
                 h.st.crate = d /\ h.st.allEntities = d.graph


\* a cache entry whose parts all come from its own document: the entities
\* are its @graph, the name is that of its root entity, the hints and the
\* expanded form are those of the document, or empty after a failed expansion
EntryOfOneDocument(c) ==
  /\ c.entities = c.json.graph
  /\ FindRoot(c.json.graph) # Undefined =>
        c.crateName = getSafeName(FindRoot(c.json.graph), c.crateName)
  /\ c.linkedDataHints \in {buildLinkedDataHints(c.json), {}}
  /\ c.expandedCrate \in {ExpandedOf(c.json), <<>>}

\* C36: in every reachable state, whatever the interleaving of loads,
\* navigations and resets that led to it, every cache entry is consistent:
\* its entity list is the @graph of its stored document, and its display
\* name and link hints were derived from that document.
C36_CacheEntriesConsistent ==
  \A u \in DOMAIN crateCache : EntryOfOneDocument(crateCache[u])


\* C37: whenever no load is in flight, every package of the cache has its
\* entities in the search index under its locator as crateId, whatever
\* loads from a URL, from pasted text and from a file and whatever
\* navigations went before.
C37_CachedIsIndexed ==
  NoLoadInFlight =>
     \A u \in DOMAIN crateCache :
        EntriesUnder(indexData, u) = IndexItems(crateCache[u].json.graph, u)


\* what handleSearchSelect leaves when it is given a result: the crate of the
\* result is the active package and the entity is selected in it
SelectsInOwnCrate(result) ==
  LET h == handleSearchSelect(Cur, result)
  IN /\ h.st.currentUrl = result.crateId
     /\ h.st.allEntities = crateCache[result.crateId].entities
     /\ h.st.selectedEntityId = result.entityId
     /\ HasEntity(h.st.allEntities, result.entityId)

\* C38: selecting a search result whose crate is in the cache makes that
\* crate the active package and selects the entity in it, also when the
\* package that is active has an entity with the same identifier.
C38_SelectOpensOwnCrate ==
  allEntities # <<>> =>
     \A query \in Queries :
        LET searchResults == localSearch(Cur, query, SEARCH_LIMIT)
        IN \A k \in DOMAIN searchResults :
              CacheHas(Cur, searchResults[k].crateId) =>
                 SelectsInOwnCrate(searchResults[k])


\* C39: in every reachable state with no load in flight no entry of the
\* breadcrumb stack carries the current locator, also after a nested
\* reference that resolves to the current package or to a package that is
\* on the stack.
C39_CurrentNotOnStack ==
  NoLoadInFlight =>
     \A i \in DOMAIN historyStack : historyStack[i].url # currentUrl


\* a load that did not come from the cache has not run to its end
LoadPending == tasks # <<>>

\* the first half of C40: a set Loading flag is cleared in the end, with a
\* package shown or an error message
C40_LoadingEnds ==
  isLoading ~> (~isLoading /\ (allEntities # <<>> \/ errorMsg # NULL))

\* the second half of C40: the Loading flag is set exactly while a load that
\* did not come from the cache is in flight
C40_LoadingWhilePending == isLoading <=> LoadPending

\* C40: provided every fetch and every expansion returns or fails in the
\* end, every load that sets the Loading flag clears it in the end, and the
\* package is then shown or an error is; the flag is set exactly while a
\* load that did not come from the cache is in flight and is not cleared
\* while one is pending.
C40_LoadingFollowsLoads == C40_LoadingEnds /\ []C40_LoadingWhilePending

====
